---- MODULE Spec2Model ----
(***************************************************************************)
(* Bank reconciliation engine (src/utils/reconciliationLogic.ts).          *)
(*                                                                         *)
(* Representation:                                                         *)
(*   - a description is a string; Chars gives its characters, a sequence   *)
(*     of one-character strings, on which the text functions work;         *)
(*   - an amount is an integer number of mills (1/1000 of the currency     *)
(*     unit), so that 0.01 is 10 mills and amounts below the tolerance     *)
(*     exist; binary floating-point rounding error is not modelled;        *)
(*   - a date is a calendar date <<y, m, d>>; getTime gives its epoch day; *)
(*   - a score (similarity, confidence, match rate) is an exact rational   *)
(*     <<n, d>> in lowest terms with d > 0.                                *)
(***************************************************************************)
EXTENDS Integers, Sequences, FiniteSets, TLC

(***************************************************************************)
(* Exact rationals.                                                        *)
(***************************************************************************)
Abs(x) == IF x < 0 THEN -x ELSE x

Min2(x, y) == IF x <= y THEN x ELSE y

Max2(x, y) == IF x >= y THEN x ELSE y

(* Bind(e, F) is F(e) with e evaluated once. *)
Bind(e, F(_)) == CHOOSE r \in { F(x) : x \in {e} } : TRUE

GcdOf[a \in Nat, b \in Nat] == IF b = 0 THEN a ELSE GcdOf[b, a % b]

GCD(a, b) == GcdOf[a, b]

R(n, d) ==
    LET g == GCD(Abs(n), Abs(d))
        s == IF d < 0 THEN -1 ELSE 1
    IN  <<(s * n) \div g, (s * d) \div g>>

RLt(a, b) == a[1] * b[2] < b[1] * a[2]

RLeq(a, b) == a[1] * b[2] <= b[1] * a[2]

RSub(a, b) == R(a[1] * b[2] - b[1] * a[2], a[2] * b[2])

RAbs(a) == <<Abs(a[1]), a[2]>>

RMax(a, b) == IF RLt(a, b) THEN b ELSE a

RZero == <<0, 1>>

ROne == <<1, 1>>

(***************************************************************************)
(* DEFAULT_CONFIG and the mode-dependent configuration.                    *)
(***************************************************************************)
AmountTolerance == 10

DEFAULT_CONFIG ==
    [ amountTolerance     |-> AmountTolerance,
      dateWindowStrict    |-> 3,
      dateWindowLoose     |-> 10,
      dateWindowReference |-> 45,
      fuzzyTextThreshold  |-> R(6, 10),
      maxCombinationDepth |-> 4 ]

Modes == {"accuracy", "speed"}

(* The configuration with the reference window of speed mode in both modes. *)
ConfigOfNarrowReference(mode) ==
    IF mode = "accuracy"
    THEN [ DEFAULT_CONFIG EXCEPT !.dateWindowReference = 10 ]
    ELSE [ DEFAULT_CONFIG EXCEPT
             !.dateWindowStrict    = 1,
             !.dateWindowLoose     = 3,
             !.dateWindowReference = 10,
             !.fuzzyTextThreshold  = R(85, 100),
             !.maxCombinationDepth = 2 ]

(* The configuration with the fuzzy threshold of speed mode in both modes. *)
ConfigOfHighThreshold(mode) ==
    IF mode = "accuracy"
    THEN [ DEFAULT_CONFIG EXCEPT !.fuzzyTextThreshold = R(85, 100) ]
    ELSE [ DEFAULT_CONFIG EXCEPT
             !.dateWindowStrict    = 1,
             !.dateWindowLoose     = 3,
             !.dateWindowReference = 10,
             !.fuzzyTextThreshold  = R(85, 100),
             !.maxCombinationDepth = 2 ]

(* The configuration with the date windows of accuracy mode in both modes. *)
ConfigOfWideWindows(mode) ==
    IF mode = "accuracy"
    THEN DEFAULT_CONFIG
    ELSE [ DEFAULT_CONFIG EXCEPT
             !.fuzzyTextThreshold  = R(85, 100),
             !.maxCombinationDepth = 2 ]

ConfigOf(mode) ==
    IF mode = "accuracy"
    THEN DEFAULT_CONFIG
    ELSE [ DEFAULT_CONFIG EXCEPT
             !.dateWindowStrict    = 1,
             !.dateWindowLoose     = 3,
             !.dateWindowReference = 10,
             !.fuzzyTextThreshold  = R(85, 100),
             !.maxCombinationDepth = 2 ]

STOP_WORDS ==
    { "the", "and", "or", "ltd", "inc", "corp", "plc", "llc", "gmbh", "pvt",
      "payment", "transfer", "tfr", "inv", "ref", "invoice", "bill", "reference",
      "to", "from", "of", "for", "by", "deposit", "withdrawal", "dr", "cr",
      "momo", "mobile", "money", "bank", "charges", "service", "fee", "comm",
      "pos", "purchase", "card", "visa", "mastercard", "direct", "debit",
      "standing", "order", "chq", "cheque", "cash", "atm", "trf", "rtgs", "neft",
      "imps", "ach", "wire", "txn", "id", "no", "number", "account", "acct",
      "opening", "balance", "closing", "brought", "forward" }

(***************************************************************************)
(* Characters.                                                             *)
(***************************************************************************)
LowerSeq ==
    << "a", "b", "c", "d", "e", "f", "g", "h", "i", "j", "k", "l", "m",
       "n", "o", "p", "q", "r", "s", "t", "u", "v", "w", "x", "y", "z" >>

UpperSeq ==
    << "A", "B", "C", "D", "E", "F", "G", "H", "I", "J", "K", "L", "M",
       "N", "O", "P", "Q", "R", "S", "T", "U", "V", "W", "X", "Y", "Z" >>

DigitSeq == << "0", "1", "2", "3", "4", "5", "6", "7", "8", "9" >>

Range(s) == { s[i] : i \in DOMAIN s }

LowerChars == Range(LowerSeq)

UpperChars == Range(UpperSeq)

DigitChars == Range(DigitSeq)

LetterChars == LowerChars \cup UpperChars

AlnumChars == LetterChars \cup DigitChars

SpaceChars == { " " }

ToLowerChar(c) ==
    IF c \in UpperChars
    THEN LowerSeq[CHOOSE i \in DOMAIN UpperSeq : UpperSeq[i] = c]
    ELSE c

DigitVal(c) == (CHOOSE i \in DOMAIN DigitSeq : DigitSeq[i] = c) - 1

(* The maximal runs of characters of the set C in s, left to right. *)
RECURSIVE RunsFrom(_, _, _, _)
RunsFrom(s, C, i, cur) ==
    LET flush == IF cur = <<>> THEN <<>> ELSE <<cur>>
    IN  IF i > Len(s) THEN flush
        ELSE IF s[i] \in C THEN RunsFrom(s, C, i + 1, Append(cur, s[i]))
        ELSE flush \o RunsFrom(s, C, i + 1, <<>>)

Runs(s, C) == RunsFrom(s, C, 1, <<>>)

RECURSIVE WordStr(_)
WordStr(w) == IF w = <<>> THEN "" ELSE Head(w) \o WordStr(Tail(w))

RECURSIVE JoinWords(_)
JoinWords(ws) ==
    IF ws = <<>> THEN <<>>
    ELSE IF Len(ws) = 1 THEN ws[1]
    ELSE ws[1] \o << " " >> \o JoinWords(Tail(ws))

SelectChars(s, C) == SelectSeq(s, LAMBDA c : c \in C)

(***************************************************************************)
(* normalizeStr: lowercase, every character outside [a-z0-9\s] becomes a   *)
(* space, split on whitespace, drop words of length <= 1 and stop words,   *)
(* join with single spaces.                                                *)
(***************************************************************************)
NormKeepChars == LowerChars \cup DigitChars

normalizeStr(str) ==
    LET lower == [i \in DOMAIN str |-> ToLowerChar(str[i])]
        words == Runs(lower, NormKeepChars)
        kept  == SelectSeq(words, LAMBDA w : Len(w) > 1 /\ WordStr(w) \notin STOP_WORDS)
    IN  JoinWords(kept)

(***************************************************************************)
(* extractNumericTokens.  The candidates of /\b[a-zA-Z0-9-]+\b/g are the   *)
(* maximal runs of letters, digits and hyphens, cut back to their first    *)
(* and last alphanumeric character (a word boundary needs one).            *)
(***************************************************************************)
TokenChars == AlnumChars \cup { "-" }

RECURSIVE TrimLeft(_)
TrimLeft(s) ==
    IF s = <<>> THEN <<>>
    ELSE IF Head(s) \in AlnumChars THEN s
    ELSE TrimLeft(Tail(s))

RECURSIVE TrimRight(_)
TrimRight(s) ==
    IF s = <<>> THEN <<>>
    ELSE IF s[Len(s)] \in AlnumChars THEN s
    ELSE TrimRight(SubSeq(s, 1, Len(s) - 1))

TokenCandidates(str) ==
    LET runs    == Runs(str, TokenChars)
        trimmed == [i \in DOMAIN runs |-> TrimRight(TrimLeft(runs[i]))]
    IN  SelectSeq(trimmed, LAMBDA t : t # <<>>)

(* parseInt(clean) is the value of the leading digits of clean, if any. *)
RECURSIVE LeadingDigits(_)
LeadingDigits(s) ==
    IF s = <<>> \/ Head(s) \notin DigitChars THEN <<>>
    ELSE <<Head(s)>> \o LeadingDigits(Tail(s))

RECURSIVE StripZeros(_)
StripZeros(s) ==
    IF s # <<>> /\ Head(s) = "0" THEN StripZeros(Tail(s)) ELSE s

RECURSIVE DigitsValue(_)
DigitsValue(s) ==
    IF s = <<>> THEN 0
    ELSE 10 * DigitsValue(SubSeq(s, 1, Len(s) - 1)) + DigitVal(s[Len(s)])

LooksLikeYear(clean) ==
    LET lead == LeadingDigits(clean)
        sig  == StripZeros(lead)
    IN  /\ lead # <<>>
        /\ Len(sig) = 4
        /\ DigitsValue(sig) >= 2020
        /\ DigitsValue(sig) <= 2030

QualifiesAsToken(clean) ==
    /\ ~LooksLikeYear(clean)
    /\ \/ (Len(clean) >= 3 /\ \A i \in DOMAIN clean : clean[i] \in DigitChars)
       \/ /\ \E i \in DOMAIN clean : clean[i] \in LetterChars
          /\ Len(SelectChars(clean, DigitChars)) >= 3

extractNumericTokens(str) ==
    LET cands == TokenCandidates(str)
        cleans == { SelectChars(cands[i], AlnumChars) : i \in DOMAIN cands }
    IN  { c \in cleans : QualifiesAsToken(c) }

(***************************************************************************)
(* levenshteinDistance: the row-by-row dynamic programme of the source.    *)
(* A row is a sequence indexed 1..Len(a)+1 holding matrix[i][0..Len(a)].   *)
(***************************************************************************)
RECURSIVE LevRow(_, _, _, _)
LevRow(a, bch, prev, row) ==
    Bind(row, LAMBDA acc :
        LET j == Len(acc)
        IN  IF j > Len(a) THEN acc
            ELSE LevRow(a, bch, prev, Append(acc,
                     IF bch = a[j]
                     THEN prev[j]
                     ELSE Min2(prev[j] + 1, Min2(acc[j] + 1, prev[j + 1] + 1)))))

RECURSIVE LevRows(_, _, _, _)
LevRows(a, b, i, row) ==
    Bind(row, LAMBDA prev :
        IF i > Len(b) THEN prev
        ELSE LevRows(a, b, i + 1, LevRow(a, b[i], prev, <<i>>)))

levenshteinDistance(a, b) ==
    IF Len(a) = 0 THEN Len(b)
    ELSE IF Len(b) = 0 THEN Len(a)
    ELSE LevRows(a, b, 1, [j \in 1..(Len(a) + 1) |-> j - 1])[Len(a) + 1]

(***************************************************************************)
(* getSimilarity.                                                          *)
(***************************************************************************)
Includes(s, t) ==
    \E i \in 0..(Len(s) - Len(t)) : SubSeq(s, i + 1, i + Len(t)) = t

SimilarityOfNormalized(s1, s2) ==
    LET tokens1 == Range(Runs(s1, NormKeepChars))
        tokens2 == Range(Runs(s2, NormKeepChars))
        intersectCount == Cardinality(tokens1 \cap tokens2)
        unionSize == Cardinality(tokens1 \cup tokens2)
        tokenScore == IF unionSize > 0 THEN R(intersectCount, unionSize) ELSE RZero
        containment == IF Includes(s1, s2) \/ Includes(s2, s1) THEN R(85, 100) ELSE RZero
        maxLen == Max2(Len(s1), Len(s2))
        levScore ==
            IF Abs(Len(s1) - Len(s2)) < 5 /\ Len(s1) > 3
            THEN IF maxLen > 0
                 THEN RSub(ROne, R(levenshteinDistance(s1, s2), maxLen))
                 ELSE RZero
            ELSE RZero
    IN  IF s1 = <<>> \/ s2 = <<>> THEN RZero
        ELSE IF s1 = s2 THEN ROne
        ELSE RMax(RMax(tokenScore, containment), levScore)

getSimilarity(str1, str2) ==
    LET nums1 == extractNumericTokens(str1)
        nums2 == extractNumericTokens(str2)
    IN  IF nums1 # {} /\ nums2 # {} /\ nums1 \cap nums2 # {} THEN R(98, 100)
        ELSE Bind(<<normalizeStr(str1), normalizeStr(str2)>>,
                  LAMBDA n : SimilarityOfNormalized(n[1], n[2]))

(* The descriptions of the inputs, each with its characters. *)
DescriptionChars ==
       "Invoice REF1024 Payment" :>
          << "I", "n", "v", "o", "i", "c", "e", " ", "R", "E", "F", "1", "0",
             "2", "4", " ", "P", "a", "y", "m", "e", "n", "t" >>
    @@ "Settlement for INV1024" :>
          << "S", "e", "t", "t", "l", "e", "m", "e", "n", "t", " ", "f", "o",
             "r", " ", "I", "N", "V", "1", "0", "2", "4" >>
    @@ "Office Supply Co" :>
          << "O", "f", "f", "i", "c", "e", " ", "S", "u", "p", "p", "l", "y",
             " ", "C", "o" >>
    @@ "Office Supplies Ltd" :>
          << "O", "f", "f", "i", "c", "e", " ", "S", "u", "p", "p", "l", "i",
             "e", "s", " ", "L", "t", "d" >>
    @@ "Cheque REF-1024 cleared" :>
          << "C", "h", "e", "q", "u", "e", " ", "R", "E", "F", "-", "1", "0",
             "2", "4", " ", "c", "l", "e", "a", "r", "e", "d" >>
    @@ "Office Support" :>
          << "O", "f", "f", "i", "c", "e", " ", "S", "u", "p", "p", "o", "r",
             "t" >>
    @@ "Office Chairs Co" :>
          << "O", "f", "f", "i", "c", "e", " ", "C", "h", "a", "i", "r", "s",
             " ", "C", "o" >>
    @@ "invoice ref1024 payment" :>
          << "i", "n", "v", "o", "i", "c", "e", " ", "r", "e", "f", "1", "0",
             "2", "4", " ", "p", "a", "y", "m", "e", "n", "t" >>
    @@ "Bank Charges" :>
          << "B", "a", "n", "k", " ", "C", "h", "a", "r", "g", "e", "s" >>
    @@ "The Office Supply Co." :>
          << "T", "h", "e", " ", "O", "f", "f", "i", "c", "e", " ", "S", "u",
             "p", "p", "l", "y", " ", "C", "o", "." >>
    @@ "Office Supply" :>
          << "O", "f", "f", "i", "c", "e", " ", "S", "u", "p", "p", "l", "y" >>
    @@ "Rent" :>
          << "R", "e", "n", "t" >>
    @@ "Rnt" :>
          << "R", "n", "t" >>
    @@ "Paid 2024 ref 2024-INV-001" :>
          << "P", "a", "i", "d", " ", "2", "0", "2", "4", " ", "r", "e", "f",
             " ", "2", "0", "2", "4", "-", "I", "N", "V", "-", "0", "0", "1" >>
    @@ "Cheque 1024 no 12 AB12" :>
          << "C", "h", "e", "q", "u", "e", " ", "1", "0", "2", "4", " ", "n",
             "o", " ", "1", "2", " ", "A", "B", "1", "2" >>
    @@ "Office Rent" :>
          << "O", "f", "f", "i", "c", "e", " ", "R", "e", "n", "t" >>
    @@ "Office Lunch" :>
          << "O", "f", "f", "i", "c", "e", " ", "L", "u", "n", "c", "h" >>

Descriptions == DOMAIN DescriptionChars

Chars(description) == DescriptionChars[description]

(***************************************************************************)
(* The state.                                                              *)
(***************************************************************************)
VARIABLES
    bankTransactions,   \* the caller's bank records
    ledgerTransactions, \* the caller's ledger records
    similarity,         \* getSimilarity of each bank and ledger description
    numericTokens,      \* extractNumericTokens of each description
    mode,               \* the mode of the current call
    onProgress,         \* whether the current call has a progress callback
    pc,                 \* where the current call stands
    now,                \* Date.now(), in timer periods
    sortedBank, sortedLedger, ledgerIndex, bankIndex,
    matches, matchedBankIds, matchedLedgerIds,
    progress,           \* the percentages reported during the current call
    result,             \* <<the value the current call returned>>, or <<>>
    previous,           \* <<[mode, result]>> of the call before, or <<>>
    calls               \* the number of calls made

(* The state of the App component (src/App.tsx) that calls the engine; null *)
(* is <<>> and a value v is <<v>>.                                         *)
VARIABLES
    bankFile,             \* useState<UploadedFile | null>
    ledgerFile,           \* useState<UploadedFile | null>
    reconciliationResult, \* useState<ReconciliationResult | null>
    isProcessing,         \* useState(false)
    selected,             \* the File each file input holds, per side
    timers,               \* the callbacks of setTimeout(..., 100), in the order set
    parsing               \* the parses that are awaited

vars ==
    << bankTransactions, ledgerTransactions, similarity, numericTokens,
       mode, onProgress, pc, now,
       sortedBank, sortedLedger, ledgerIndex, bankIndex,
       matches, matchedBankIds, matchedLedgerIds, progress, result, previous, calls,
       bankFile, ledgerFile, reconciliationResult, isProcessing, selected, timers,
          parsing >>

appVars ==
    <<bankFile, ledgerFile, reconciliationResult, isProcessing, selected, timers, parsing>>

Sides == {"bank", "ledger"}

(* The App as mounted: no file, no result, nothing scheduled. *)
AppMounted ==
    /\ bankFile = <<>>
    /\ ledgerFile = <<>>
    /\ reconciliationResult = <<>>
    /\ isProcessing = FALSE
    /\ selected = [s \in Sides |-> <<>>]
    /\ timers = <<>>
    /\ parsing = {}

(* getSimilarity and extractNumericTokens are pure functions of the        *)
(* descriptions; their values on the descriptions of the inputs are kept   *)
(* in similarity and numericTokens and read from there by the passes.      *)
DescriptionsOf(txs) == { txs[i].description : i \in DOMAIN txs }

SimilarityTable(bankTxs, ledgerTxs) ==
    [ p \in DescriptionsOf(bankTxs) \X DescriptionsOf(ledgerTxs) |->
        getSimilarity(Chars(p[1]), Chars(p[2])) ]

TokenTable(bankTxs, ledgerTxs) ==
    [ d \in DescriptionsOf(bankTxs) \cup DescriptionsOf(ledgerTxs) |->
        extractNumericTokens(Chars(d)) ]

Similarity(d1, d2) == similarity[<<d1, d2>>]

NumericTokens(d) == numericTokens[d]

(***************************************************************************)
(* Dates.  new Date("YYYY-MM-DD").getTime() is UTC midnight of that day;   *)
(* getTime is that instant in whole days since 1970-01-01, so getDaysDiff  *)
(* (milliseconds divided by a day's milliseconds) is a whole number.       *)
(***************************************************************************)
getTime(date) ==
    LET y   == IF date[2] <= 2 THEN date[1] - 1 ELSE date[1]
        era == y \div 400
        yoe == y - era * 400
        mp  == IF date[2] > 2 THEN date[2] - 3 ELSE date[2] + 9
        doy == (153 * mp + 2) \div 5 + date[3] - 1
        doe == yoe * 365 + yoe \div 4 - yoe \div 100 + doy
    IN  era * 146097 + doe - 719468

(* The difference of the calendar years only, in days. *)
getDaysDiffOfYears(d1, d2) == Abs(d1[1] - d2[1]) * 365

getDaysDiff(d1, d2) == Abs(getTime(d1) - getTime(d2))

(***************************************************************************)
(* Array.prototype.sort is stable.  SortPerm gives the order of the        *)
(* indices 1..n under the comparator table cmp (cmp[i][j] < 0: i first),   *)
(* by insertion; for a consistent comparator this is the one stable order. *)
(***************************************************************************)
RECURSIVE InsertIdx(_, _, _, _)
InsertIdx(acc, x, k, cmp) ==
    IF k = 0 \/ cmp[acc[k]][x] <= 0
    THEN SubSeq(acc, 1, k) \o <<x>> \o SubSeq(acc, k + 1, Len(acc))
    ELSE InsertIdx(acc, x, k - 1, cmp)

RECURSIVE SortPermFrom(_, _, _, _)
SortPermFrom(n, cmp, i, sorted) ==
    Bind(sorted, LAMBDA acc :
        IF i > n THEN acc
        ELSE SortPermFrom(n, cmp, i + 1, InsertIdx(acc, i, Len(acc), cmp)))

SortPerm(n, cmp) == SortPermFrom(n, cmp, 1, <<>>)

Permute(seq, perm) == [k \in DOMAIN seq |-> seq[perm[k]]]

RSign(a) == IF a[1] < 0 THEN -1 ELSE IF a[1] > 0 THEN 1 ELSE 0

SortByDate(txs) ==
    Permute(txs, SortPerm(Len(txs),
        [i \in DOMAIN txs |-> [j \in DOMAIN txs |->
            getTime(txs[i].date) - getTime(txs[j].date)]]))

(***************************************************************************)
(* findSubsetSum.  The result is [found, items]: found = FALSE is null.    *)
(***************************************************************************)
NoSubset == [found |-> FALSE, items |-> <<>>]

SortByAmountDesc(pool) ==
    Permute(pool, SortPerm(Len(pool),
        [i \in DOMAIN pool |-> [j \in DOMAIN pool |->
            pool[j].amount - pool[i].amount]]))

(* The closure test without Math.abs: currentSum - target < tolerance. *)
WithinToleranceSigned(currentSum, target, tol) == currentSum - target < tol

(* const diff = Math.abs(currentSum - target); diff < config.amountTolerance *)
WithinTolerance(currentSum, target, tol) == Abs(currentSum - target) < tol

RECURSIVE search(_, _, _, _, _, _, _)
RECURSIVE searchLoop(_, _, _, _, _, _, _)
search(sortedPool, target, tol, depth, index, currentSum, currentItems) ==
    IF WithinTolerance(currentSum, target, tol)
    THEN [found |-> TRUE, items |-> currentItems]
    ELSE IF Len(currentItems) >= depth THEN NoSubset
    ELSE IF index > Len(sortedPool) THEN NoSubset
    ELSE IF currentSum > target + tol THEN NoSubset
    ELSE searchLoop(sortedPool, target, tol, depth, index, currentSum, currentItems)

(* The loop with a look-ahead that also skips an item reaching the target. *)
searchLoopSkippingExact(sortedPool, target, tol, depth, i, currentSum, currentItems) ==
    IF i > Len(sortedPool) THEN NoSubset
    ELSE LET tx == sortedPool[i]
         IN  IF currentSum + tx.amount >= target
             THEN searchLoop(sortedPool, target, tol, depth, i + 1, currentSum, currentItems)
             ELSE LET res == search(sortedPool, target, tol, depth, i + 1,
                                    currentSum + tx.amount, Append(currentItems, tx))
                  IN  IF res.found THEN res
                      ELSE searchLoop(sortedPool, target, tol, depth, i + 1,
                                      currentSum, currentItems)

(* The loop with the look-ahead currentSum + tx.amount > target, without    *)
(* the tolerance.                                                           *)
searchLoopWithoutTolerance(sortedPool, target, tol, depth, i, currentSum, currentItems) ==
    IF i > Len(sortedPool) THEN NoSubset
    ELSE LET tx == sortedPool[i]
         IN  IF currentSum + tx.amount > target
             THEN searchLoop(sortedPool, target, tol, depth, i + 1, currentSum, currentItems)
             ELSE LET res == search(sortedPool, target, tol, depth, i + 1,
                                    currentSum + tx.amount, Append(currentItems, tx))
                  IN  IF res.found THEN res
                      ELSE searchLoop(sortedPool, target, tol, depth, i + 1,
                                      currentSum, currentItems)

searchLoop(sortedPool, target, tol, depth, i, currentSum, currentItems) ==
    IF i > Len(sortedPool) THEN NoSubset
    ELSE LET tx == sortedPool[i]
         IN  IF currentSum + tx.amount > target + tol
             THEN searchLoop(sortedPool, target, tol, depth, i + 1, currentSum, currentItems)
             ELSE LET res == search(sortedPool, target, tol, depth, i + 1,
                                    currentSum + tx.amount, Append(currentItems, tx))
                  IN  IF res.found THEN res
                      ELSE searchLoop(sortedPool, target, tol, depth, i + 1,
                                      currentSum, currentItems)

findSubsetSum(pool, target, config, depth) ==
    IF depth = 0 THEN NoSubset
    ELSE Bind(SortByAmountDesc(pool), LAMBDA sortedPool :
             search(sortedPool, target, config.amountTolerance, depth, 1, 0, <<>>))

(***************************************************************************)
(* The amount index: key = Math.round(amount * 100), the amount in cents   *)
(* rounded half up.                                                        *)
(***************************************************************************)
AmountKey(amount) == (amount + 5) \div 10

createAmountIndex(transactions) ==
    LET keys == { AmountKey(transactions[i].amount) : i \in DOMAIN transactions }
    IN  [k \in keys |-> SelectSeq(transactions, LAMBDA t : AmountKey(t.amount) = k)]

IndexGet(index, key) == IF key \in DOMAIN index THEN index[key] ELSE <<>>

getCandidatesFromIndex(amount, index) ==
    LET key == AmountKey(amount)
    IN  IndexGet(index, key) \o IndexGet(index, key - 1) \o IndexGet(index, key + 1)

(***************************************************************************)
(* The state of one call: st = [matches, matchedBankIds, matchedLedgerIds].*)
(* A group id is `match-${Date.now()}-${matches.length}`: <<now, length>>. *)
(***************************************************************************)
IdsOf(txs) == { txs[i].id : i \in DOMAIN txs }

(* addMatch without line 236: the ledger ids of a group are not recorded. *)
addMatchForgettingLedgerIds(st, banks, ledgers, type, reason, confidence, at) ==
    [ matches |-> Append(st.matches,
                    [ id         |-> <<at, Len(st.matches)>>,
                      bank       |-> banks,
                      ledger     |-> ledgers,
                      type       |-> type,
                      reason     |-> reason,
                      confidence |-> confidence ]),
      matchedBankIds   |-> st.matchedBankIds \cup IdsOf(banks),
      matchedLedgerIds |-> st.matchedLedgerIds ]

(* addMatch with unshift in place of push: the new group goes first. *)
addMatchInFront(st, banks, ledgers, type, reason, confidence, at) ==
    [ matches |-> << [ id         |-> <<at, Len(st.matches)>>,
                       bank       |-> banks,
                       ledger     |-> ledgers,
                       type       |-> type,
                       reason     |-> reason,
                       confidence |-> confidence ] >> \o st.matches,
      matchedBankIds   |-> st.matchedBankIds \cup IdsOf(banks),
      matchedLedgerIds |-> st.matchedLedgerIds \cup IdsOf(ledgers) ]

addMatch(st, banks, ledgers, type, reason, confidence, at) ==
    [ matches |-> Append(st.matches,
                    [ id         |-> <<at, Len(st.matches)>>,
                      bank       |-> banks,
                      ledger     |-> ledgers,
                      type       |-> type,
                      reason     |-> reason,
                      confidence |-> confidence ]),
      matchedBankIds   |-> st.matchedBankIds \cup IdsOf(banks),
      matchedLedgerIds |-> st.matchedLedgerIds \cup IdsOf(ledgers) ]

SharesToken(d1, d2) == NumericTokens(d1) \cap NumericTokens(d2) # {}

(* Pass 1 without the test l.type === b.type of line 263. *)
Pass1StepAnyPolarity(st, b, index, config, at) ==
    IF b.id \in st.matchedBankIds THEN st
    ELSE LET potentials == getCandidatesFromIndex(b.amount, index)
             idCandidates == SelectSeq(potentials, LAMBDA l :
                 /\ l.id \notin st.matchedLedgerIds
                 /\ getDaysDiff(b.date, l.date) <= config.dateWindowReference)
             strong == SelectSeq(idCandidates, LAMBDA l :
                 SharesToken(b.description, l.description))
         IN  IF strong # <<>>
             THEN addMatch(st, <<b>>, <<strong[1]>>, "exact",
                           <<"Matched by Amount & Reference ID">>, R(99, 100), at)
             ELSE st

(* PASS 1: amount bucket + shared reference token, within the reference window. *)
Pass1Step(st, b, index, config, at) ==
    IF b.id \in st.matchedBankIds THEN st
    ELSE LET potentials == getCandidatesFromIndex(b.amount, index)
             idCandidates == SelectSeq(potentials, LAMBDA l :
                 /\ l.id \notin st.matchedLedgerIds
                 /\ l.type = b.type
                 /\ getDaysDiff(b.date, l.date) <= config.dateWindowReference)
             strong == SelectSeq(idCandidates, LAMBDA l :
                 SharesToken(b.description, l.description))
         IN  IF strong # <<>>
             THEN addMatch(st, <<b>>, <<strong[1]>>, "exact",
                           <<"Matched by Amount & Reference ID">>, R(99, 100), at)
             ELSE st

(* Pass 2 taking the first candidate of the bucket, without the sort. *)
Pass2StepFirstCandidate(st, b, index, config, at) ==
    IF b.id \in st.matchedBankIds THEN st
    ELSE LET potentials == getCandidatesFromIndex(b.amount, index)
             perfect == SelectSeq(potentials, LAMBDA l :
                 /\ l.id \notin st.matchedLedgerIds
                 /\ l.type = b.type
                 /\ getDaysDiff(b.date, l.date) = 0)
         IN  IF Len(perfect) > 0
             THEN LET best == perfect[1]
                      s == Similarity(b.description, best.description)
                  IN  addMatch(st, <<b>>, <<best>>, "exact",
                               IF RLt(R(8, 10), s)
                               THEN <<"Perfect Match">>
                               ELSE <<"Matched by Amount & Exact Date">>,
                               R(95, 100), at)
             ELSE st

(* Pass 2 accepting the best candidate only when the descriptions agree. *)
Pass2StepNeedingSimilarity(st, b, index, config, at) ==
    IF b.id \in st.matchedBankIds THEN st
    ELSE LET potentials == getCandidatesFromIndex(b.amount, index)
             perfect == SelectSeq(potentials, LAMBDA l :
                 /\ l.id \notin st.matchedLedgerIds
                 /\ l.type = b.type
                 /\ getDaysDiff(b.date, l.date) = 0)
             sim == [i \in DOMAIN perfect |-> Similarity(b.description, perfect[i].description)]
             sorted == Permute(perfect, SortPerm(Len(perfect),
                 [i \in DOMAIN perfect |-> [j \in DOMAIN perfect |->
                     RSign(RSub(sim[j], sim[i]))]]))
         IN  IF Len(perfect) > 0
                /\ RLt(R(8, 10), Similarity(b.description, sorted[1].description))
             THEN addMatch(st, <<b>>, <<sorted[1]>>, "exact", <<"Perfect Match">>,
                           R(95, 100), at)
             ELSE st

(* PASS 2: amount bucket + identical date; the most similar candidate. *)
Pass2Step(st, b, index, config, at) ==
    IF b.id \in st.matchedBankIds THEN st
    ELSE LET potentials == getCandidatesFromIndex(b.amount, index)
             perfect == SelectSeq(potentials, LAMBDA l :
                 /\ l.id \notin st.matchedLedgerIds
                 /\ l.type = b.type
                 /\ getDaysDiff(b.date, l.date) = 0)
             sim == [i \in DOMAIN perfect |-> Similarity(b.description, perfect[i].description)]
             sorted == Permute(perfect, SortPerm(Len(perfect),
                 [i \in DOMAIN perfect |-> [j \in DOMAIN perfect |->
                     RSign(RSub(sim[j], sim[i]))]]))
         IN  IF Len(perfect) > 0
             THEN LET best == sorted[1]
                      s == Similarity(b.description, best.description)
                  IN  addMatch(st, <<b>>, <<best>>, "exact",
                               IF RLt(R(8, 10), s)
                               THEN <<"Perfect Match">>
                               ELSE <<"Matched by Amount & Exact Date">>,
                               R(95, 100), at)
             ELSE st

(* Pass 3 accepting the best candidate on its similarity alone. *)
Pass3StepNeedingSimilarity(st, b, index, config, at) ==
    IF b.id \in st.matchedBankIds THEN st
    ELSE LET potentials == getCandidatesFromIndex(b.amount, index)
             candidates == SelectSeq(potentials, LAMBDA l :
                 /\ l.id \notin st.matchedLedgerIds
                 /\ l.type = b.type
                 /\ getDaysDiff(b.date, l.date) <= config.dateWindowStrict)
             mapped == [i \in DOMAIN candidates |->
                 [ tx    |-> candidates[i],
                   score |-> Similarity(b.description, candidates[i].description),
                   days  |-> getDaysDiff(b.date, candidates[i].date) ]]
             scored == Permute(mapped, SortPerm(Len(mapped),
                 [i \in DOMAIN mapped |-> [j \in DOMAIN mapped |->
                     IF RLt(R(1, 10), RAbs(RSub(mapped[i].score, mapped[j].score)))
                     THEN RSign(RSub(mapped[j].score, mapped[i].score))
                     ELSE mapped[i].days - mapped[j].days]]))
         IN  IF Len(candidates) = 0 THEN st
             ELSE LET best == scored[1]
                  IN  IF RLeq(R(5, 10), best.score)
                      THEN addMatch(st, <<b>>, <<best.tx>>, "exact",
                                    IF RLeq(R(8, 10), best.score)
                                    THEN <<"Strong Text & Nearby Date">>
                                    ELSE <<"Amount & Nearby Date">>,
                                    R(9, 10), at)
                      ELSE st

(* PASS 3: amount bucket + strict window; similarity first, then date. *)
Pass3Cmp(a, b) ==
    IF RLt(R(1, 10), RAbs(RSub(a.score, b.score)))
    THEN RSign(RSub(b.score, a.score))
    ELSE a.days - b.days

Pass3Step(st, b, index, config, at) ==
    IF b.id \in st.matchedBankIds THEN st
    ELSE LET potentials == getCandidatesFromIndex(b.amount, index)
             candidates == SelectSeq(potentials, LAMBDA l :
                 /\ l.id \notin st.matchedLedgerIds
                 /\ l.type = b.type
                 /\ getDaysDiff(b.date, l.date) <= config.dateWindowStrict)
             mapped == [i \in DOMAIN candidates |->
                 [ tx    |-> candidates[i],
                   score |-> Similarity(b.description, candidates[i].description),
                   days  |-> getDaysDiff(b.date, candidates[i].date) ]]
             scored == Permute(mapped, SortPerm(Len(mapped),
                 [i \in DOMAIN mapped |-> [j \in DOMAIN mapped |->
                     Pass3Cmp(mapped[i], mapped[j])]]))
         IN  IF Len(candidates) = 0 THEN st
             ELSE LET best == scored[1]
                  IN  IF RLeq(R(5, 10), best.score) \/ best.days <= 1
                      THEN addMatch(st, <<b>>, <<best.tx>>, "exact",
                                    IF RLeq(R(8, 10), best.score)
                                    THEN <<"Strong Text & Nearby Date">>
                                    ELSE <<"Amount & Nearby Date">>,
                                    R(9, 10), at)
                      ELSE st

(* toFixed(0) of a non-negative rational: the nearest integer. *)
ToFixed0(r) == (2 * r[1] + r[2]) \div (2 * r[2])

(* Pass 4 with a date penalty of weight 2 in place of 0.2. *)
Pass4StepHeavyPenalty(st, b, index, config, at) ==
    IF b.id \in st.matchedBankIds THEN st
    ELSE LET potentials == getCandidatesFromIndex(b.amount, index)
             candidates == SelectSeq(potentials, LAMBDA l :
                 /\ l.id \notin st.matchedLedgerIds
                 /\ l.type = b.type
                 /\ getDaysDiff(b.date, l.date) <= config.dateWindowLoose)
             mapped == [i \in DOMAIN candidates |->
                 LET textScore == Similarity(b.description, candidates[i].description)
                     daysDiff  == getDaysDiff(b.date, candidates[i].date)
                     penalty   == R(daysDiff * 2, config.dateWindowLoose)
                 IN  [ tx         |-> candidates[i],
                       rawScore   |-> textScore,
                       finalScore |-> RSub(textScore, penalty),
                       daysDiff   |-> daysDiff ]]
             scored == Permute(mapped, SortPerm(Len(mapped),
                 [i \in DOMAIN mapped |-> [j \in DOMAIN mapped |->
                     RSign(RSub(mapped[j].finalScore, mapped[i].finalScore))]]))
         IN  IF Len(candidates) = 0 THEN st
             ELSE LET best == scored[1]
                  IN  IF RLeq(config.fuzzyTextThreshold, best.rawScore)
                      THEN addMatch(st, <<b>>, <<best.tx>>, "fuzzy",
                                    <<"Fuzzy Match", ToFixed0(R(best.rawScore[1] * 100, best.rawScore[2])),
                                      best.daysDiff>>,
                                    best.finalScore, at)
                      ELSE st

(* Pass 4 with the candidates ranked by the raw similarity. *)
Pass4StepByRawScore(st, b, index, config, at) ==
    IF b.id \in st.matchedBankIds THEN st
    ELSE LET potentials == getCandidatesFromIndex(b.amount, index)
             candidates == SelectSeq(potentials, LAMBDA l :
                 /\ l.id \notin st.matchedLedgerIds
                 /\ l.type = b.type
                 /\ getDaysDiff(b.date, l.date) <= config.dateWindowLoose)
             mapped == [i \in DOMAIN candidates |->
                 LET textScore == Similarity(b.description, candidates[i].description)
                     daysDiff  == getDaysDiff(b.date, candidates[i].date)
                     penalty   == R(daysDiff * 2, config.dateWindowLoose * 10)
                 IN  [ tx         |-> candidates[i],
                       rawScore   |-> textScore,
                       finalScore |-> RSub(textScore, penalty),
                       daysDiff   |-> daysDiff ]]
             scored == Permute(mapped, SortPerm(Len(mapped),
                 [i \in DOMAIN mapped |-> [j \in DOMAIN mapped |->
                     RSign(RSub(mapped[j].rawScore, mapped[i].rawScore))]]))
         IN  IF Len(candidates) = 0 THEN st
             ELSE LET best == scored[1]
                  IN  IF RLeq(config.fuzzyTextThreshold, best.rawScore)
                      THEN addMatch(st, <<b>>, <<best.tx>>, "fuzzy",
                                    <<"Fuzzy Match", ToFixed0(R(best.rawScore[1] * 100, best.rawScore[2])),
                                      best.daysDiff>>,
                                    best.finalScore, at)
                      ELSE st

(* Pass 4 accepting the best candidate on its penalised score. *)
Pass4StepByFinalScore(st, b, index, config, at) ==
    IF b.id \in st.matchedBankIds THEN st
    ELSE LET potentials == getCandidatesFromIndex(b.amount, index)
             candidates == SelectSeq(potentials, LAMBDA l :
                 /\ l.id \notin st.matchedLedgerIds
                 /\ l.type = b.type
                 /\ getDaysDiff(b.date, l.date) <= config.dateWindowLoose)
             mapped == [i \in DOMAIN candidates |->
                 LET textScore == Similarity(b.description, candidates[i].description)
                     daysDiff  == getDaysDiff(b.date, candidates[i].date)
                     penalty   == R(daysDiff * 2, config.dateWindowLoose * 10)
                 IN  [ tx         |-> candidates[i],
                       rawScore   |-> textScore,
                       finalScore |-> RSub(textScore, penalty),
                       daysDiff   |-> daysDiff ]]
             scored == Permute(mapped, SortPerm(Len(mapped),
                 [i \in DOMAIN mapped |-> [j \in DOMAIN mapped |->
                     RSign(RSub(mapped[j].finalScore, mapped[i].finalScore))]]))
         IN  IF Len(candidates) = 0 THEN st
             ELSE LET best == scored[1]
                  IN  IF RLeq(config.fuzzyTextThreshold, best.finalScore)
                      THEN addMatch(st, <<b>>, <<best.tx>>, "fuzzy",
                                    <<"Fuzzy Match", ToFixed0(R(best.rawScore[1] * 100, best.rawScore[2])),
                                      best.daysDiff>>,
                                    best.finalScore, at)
                      ELSE st

(* PASS 4: amount bucket + loose window; similarity less a date penalty. *)
Pass4Step(st, b, index, config, at) ==
    IF b.id \in st.matchedBankIds THEN st
    ELSE LET potentials == getCandidatesFromIndex(b.amount, index)
             candidates == SelectSeq(potentials, LAMBDA l :
                 /\ l.id \notin st.matchedLedgerIds
                 /\ l.type = b.type
                 /\ getDaysDiff(b.date, l.date) <= config.dateWindowLoose)
             mapped == [i \in DOMAIN candidates |->
                 LET textScore == Similarity(b.description, candidates[i].description)
                     daysDiff  == getDaysDiff(b.date, candidates[i].date)
                     penalty   == R(daysDiff * 2, config.dateWindowLoose * 10)
                 IN  [ tx         |-> candidates[i],
                       rawScore   |-> textScore,
                       finalScore |-> RSub(textScore, penalty),
                       daysDiff   |-> daysDiff ]]
             scored == Permute(mapped, SortPerm(Len(mapped),
                 [i \in DOMAIN mapped |-> [j \in DOMAIN mapped |->
                     RSign(RSub(mapped[j].finalScore, mapped[i].finalScore))]]))
         IN  IF Len(candidates) = 0 THEN st
             ELSE LET best == scored[1]
                  IN  IF RLeq(config.fuzzyTextThreshold, best.rawScore)
                      THEN addMatch(st, <<b>>, <<best.tx>>, "fuzzy",
                                    <<"Fuzzy Match", ToFixed0(R(best.rawScore[1] * 100, best.rawScore[2])),
                                      best.daysDiff>>,
                                    best.finalScore, at)
                      ELSE st

SortByProximity(pool, date) ==
    Permute(pool, SortPerm(Len(pool),
        [i \in DOMAIN pool |-> [j \in DOMAIN pool |->
            getDaysDiff(date, pool[i].date) - getDaysDiff(date, pool[j].date)]]))

(* PASS 5, 1-to-N: a bank item against a subset of nearby ledger items. *)
SplitStep(st, b, ledgers, config, at) ==
    IF b.id \in st.matchedBankIds THEN st
    ELSE LET pool == SelectSeq(ledgers, LAMBDA l :
                 /\ l.id \notin st.matchedLedgerIds
                 /\ l.type = b.type
                 /\ getDaysDiff(b.date, l.date) <= config.dateWindowStrict
                 /\ l.amount <= b.amount)
             subset == findSubsetSum(SortByProximity(pool, b.date), b.amount,
                                     config, config.maxCombinationDepth)
         IN  IF subset.found
             THEN addMatch(st, <<b>>, subset.items, "1-to-N",
                           <<"Split: 1 Bank Item matches", Len(subset.items), "Ledger Items">>,
                           R(85, 100), at)
             ELSE st

(* PASS 5, N-to-1: a ledger item against a subset of nearby bank items. *)
MergeStep(st, l, banks, config, at) ==
    IF l.id \in st.matchedLedgerIds THEN st
    ELSE LET pool == SelectSeq(banks, LAMBDA b :
                 /\ b.id \notin st.matchedBankIds
                 /\ b.type = l.type
                 /\ getDaysDiff(b.date, l.date) <= config.dateWindowStrict
                 /\ b.amount <= l.amount)
             subset == findSubsetSum(SortByProximity(pool, l.date), l.amount,
                                     config, config.maxCombinationDepth)
         IN  IF subset.found
             THEN addMatch(st, subset.items, <<l>>, "N-to-1",
                           <<"Merge:", Len(subset.items), "Bank Items match 1 Ledger Item">>,
                           R(85, 100), at)
             ELSE st

(* The for-loops of the passes. *)
RECURSIVE Pass1Loop(_, _, _, _, _, _)
Pass1Loop(state, banks, i, index, config, at) ==
    Bind(state, LAMBDA st :
        IF i > Len(banks) THEN st
        ELSE Pass1Loop(Pass1Step(st, banks[i], index, config, at),
                       banks, i + 1, index, config, at))

RECURSIVE Pass2Loop(_, _, _, _, _, _)
Pass2Loop(state, banks, i, index, config, at) ==
    Bind(state, LAMBDA st :
        IF i > Len(banks) THEN st
        ELSE Pass2Loop(Pass2Step(st, banks[i], index, config, at),
                       banks, i + 1, index, config, at))

RECURSIVE Pass3Loop(_, _, _, _, _, _)
Pass3Loop(state, banks, i, index, config, at) ==
    Bind(state, LAMBDA st :
        IF i > Len(banks) THEN st
        ELSE Pass3Loop(Pass3Step(st, banks[i], index, config, at),
                       banks, i + 1, index, config, at))

RECURSIVE Pass4Loop(_, _, _, _, _, _)
Pass4Loop(state, banks, i, index, config, at) ==
    Bind(state, LAMBDA st :
        IF i > Len(banks) THEN st
        ELSE Pass4Loop(Pass4Step(st, banks[i], index, config, at),
                       banks, i + 1, index, config, at))

RECURSIVE SplitLoop(_, _, _, _, _, _)
SplitLoop(state, banks, i, ledgers, config, at) ==
    Bind(state, LAMBDA st :
        IF i > Len(banks) THEN st
        ELSE SplitLoop(SplitStep(st, banks[i], ledgers, config, at),
                       banks, i + 1, ledgers, config, at))

RECURSIVE MergeLoop(_, _, _, _, _, _)
MergeLoop(state, ledgers, i, banks, config, at) ==
    Bind(state, LAMBDA st :
        IF i > Len(ledgers) THEN st
        ELSE MergeLoop(MergeStep(st, ledgers[i], banks, config, at),
                       ledgers, i + 1, banks, config, at))

(* The result aggregator. *)
(* The number of groups, in place of their members. *)
SumLenCountingGroups(ms, side) == Len(ms)

RECURSIVE SumLen(_, _)
SumLen(ms, side) ==
    IF ms = <<>> THEN 0 ELSE Len(Head(ms)[side]) + SumLen(Tail(ms), side)

(* The rate taken over the items that were left unmatched. *)
MatchRateOfUnmatched(matchedItems, totalItems) ==
    IF totalItems > 0 THEN R((totalItems - matchedItems) * 100, totalItems) ELSE RZero

MatchRate(matchedItems, totalItems) ==
    IF totalItems > 0 THEN R(matchedItems * 100, totalItems) ELSE RZero

Aggregate(bankTxs, ledgerTxs, st) ==
    LET unmatchedBank   == SelectSeq(bankTxs, LAMBDA t : t.id \notin st.matchedBankIds)
        unmatchedLedger == SelectSeq(ledgerTxs, LAMBDA t : t.id \notin st.matchedLedgerIds)
        matchedBankCount   == SumLen(st.matches, "bank")
        matchedLedgerCount == SumLen(st.matches, "ledger")
        totalItems   == Len(bankTxs) + Len(ledgerTxs)
        matchedItems == matchedBankCount + matchedLedgerCount
    IN  [ matches         |-> st.matches,
          unmatchedBank   |-> unmatchedBank,
          unmatchedLedger |-> unmatchedLedger,
          stats |->
            [ totalBank            |-> Len(bankTxs),
              totalLedger          |-> Len(ledgerTxs),
              matchedBankCount     |-> matchedBankCount,
              matchedLedgerCount   |-> matchedLedgerCount,
              unmatchedBankCount   |-> Len(unmatchedBank),
              unmatchedLedgerCount |-> Len(unmatchedLedger),
              matchRate |-> MatchRate(matchedItems, totalItems) ] ]

(***************************************************************************)
(* Inputs.                                                                 *)
(***************************************************************************)
Tx(id, date, description, amount, type, source) ==
    [ id |-> id, date |-> date, description |-> description,
      amount |-> amount, type |-> type, source |-> source ]

Types == {"credit", "debit"}

BankIds == <<"b1", "b2", "b3", "b4">>

LedgerIds == <<"l1", "l2", "l3", "l4">>

MaxBank == 2

MaxLedger == 2

MaxCalls == 2

(* The scenarios of the specification's section 8. *)
ScenarioReference ==
    { << <<Tx("b1", <<2024, 1, 5>>, "Invoice REF1024 Payment", 100000, t, "bank")>>,
         <<Tx("l1", <<2024, 3, 1>>, "Settlement for INV1024", 100000, t, "ledger")>> >>
      : t \in Types }

ScenarioFuzzy ==
    { << <<Tx("b1", <<2024, 2, 26>>, "Office Supply Co", 850500, t, "bank")>>,
         <<Tx("l1", <<2024, 3, 3>>, "Office Supplies Ltd", 850500, t, "ledger")>> >>
      : t \in Types }

SplitDates == { <<2024, 2, 27>>, <<2024, 3, 1>>, <<2024, 3, 4>> }

ScenarioSplit ==
    { << <<Tx("b1", <<2024, 3, 1>>, "Office Supply Co", 100000, "debit", "bank")>>,
         << Tx("l1", d[1], "Office Supplies Ltd", 30000, "debit", "ledger"),
            Tx("l2", d[2], "Office Supplies Ltd", 40000, "debit", "ledger"),
            Tx("l3", d[3], "Office Supplies Ltd", 30000, "debit", "ledger") >> >>
      : d \in SplitDates \X SplitDates \X SplitDates }

(* Bounded families of general inputs: up to MaxBank bank records and up to *)
(* MaxLedger ledger records, each drawn from a small set of shapes; ids are *)
(* unique within a side.                                                    *)
Shape(date, description, amount, type) ==
    [ date |-> date, description |-> description, amount |-> amount, type |-> type ]

SeqsUpTo(S, n) == UNION { [1..k -> S] : k \in 0..n }

Lists(shapes, ids, source, n) ==
    { [i \in DOMAIN f |-> Tx(ids[i], f[i].date, f[i].description, f[i].amount,
                             f[i].type, source)]
      : f \in SeqsUpTo(shapes, n) }

Family(bankShapes, ledgerShapes) ==
    Lists(bankShapes, BankIds, "bank", MaxBank)
        \X Lists(ledgerShapes, LedgerIds, "ledger", MaxLedger)

(* Amounts: a zero amount, halves and wholes, on one day or two days apart, *)
(* with descriptions that have nothing in common.                          *)
AmountBankShapes ==
    { Shape(<<2024, 3, 1>>, "Office Supply Co", a, "debit") : a \in { 0, 50000, 100000 } }

AmountLedgerShapes ==
    { Shape(<<2024, 3, 1>>, "Settlement for INV1024", 50000, "debit"),
      Shape(<<2024, 3, 3>>, "Settlement for INV1024", 50000, "debit"),
      Shape(<<2024, 3, 3>>, "Settlement for INV1024", 100000, "debit") }

(* References: a bank record with the token REF1024; ledger records with   *)
(* or without it, a day or forty days later, of either amount or polarity. *)
ReferenceBankShapes ==
    { Shape(<<2024, 3, 1>>, "Invoice REF1024 Payment", a, "debit") : a \in { 50000, 100000 } }

ReferenceLedgerShapes ==
    { Shape(<<2024, 4, 10>>, "Cheque REF-1024 cleared", 100000, "debit"),
      Shape(<<2024, 3, 2>>, "Office Supply Co", 100000, "debit"),
      Shape(<<2024, 3, 2>>, "Cheque REF-1024 cleared", 100000, "credit") }

(* Amounts with fractions of a cent: 1.000 against 1.014 (adjacent cent     *)
(* keys 100 and 101) and 1.020 (key 102), on the same day or six days on.   *)
SubCentBankShapes ==
    { Shape(<<2024, 3, 1>>, "Office Supply Co", 1000, "debit") }

SubCentLedgerShapes ==
    { Shape(<<2024, 3, 1>>, "Office Supplies Ltd", 1014, "debit"),
      Shape(<<2024, 3, 7>>, "Office Supplies Ltd", 1014, "debit"),
      Shape(<<2024, 3, 1>>, "Office Supplies Ltd", 1020, "debit") }

(* Three ledger records of the bank record's amount, one to three days      *)
(* after it, whose similarities to "Office Supply Co" are 0.625, 0.6875 and *)
(* 0.75: each within 0.1 of the next, the first and the last 0.125 apart.   *)
RankingDates == { <<2024, 3, 2>>, <<2024, 3, 3>>, <<2024, 3, 4>> }

ScenarioRanking ==
    { << <<Tx("b1", <<2024, 3, 1>>, "Office Supply Co", 100000, "debit", "bank")>>,
         << Tx("l1", d[1], "Office Chairs Co", 100000, "debit", "ledger"),
            Tx("l2", d[2], "Office Support", 100000, "debit", "ledger"),
            Tx("l3", d[3], "Office Supplies Ltd", 100000, "debit", "ledger") >> >>
      : d \in RankingDates \X RankingDates \X RankingDates }

(* Fuzzy candidates: the similar description ten days before and four days  *)
(* after the bank record, and the bank record's own description two days    *)
(* after it.                                                                *)
FuzzyBankShapes ==
    { Shape(<<2024, 3, 1>>, "Office Supply Co", 100000, "debit") }

FuzzyLedgerShapes ==
    { Shape(<<2024, 2, 20>>, "Office Supplies Ltd", 100000, "debit"),
      Shape(<<2024, 3, 5>>, "Office Supplies Ltd", 100000, "debit"),
      Shape(<<2024, 3, 3>>, "Office Supply Co", 100000, "debit") }

(* Same day, same amount: ledger records on the bank record's date whose    *)
(* similarities to "Office Supply Co" are 0.625, 0.75 and 1/18.             *)
SameDayBankShapes ==
    { Shape(<<2024, 3, 1>>, "Office Supply Co", 100000, "debit") }

SameDayLedgerShapes ==
    { Shape(<<2024, 3, 1>>, "Office Chairs Co", 100000, "debit"),
      Shape(<<2024, 3, 1>>, "Office Supplies Ltd", 100000, "debit"),
      Shape(<<2024, 3, 1>>, "Settlement for INV1024", 100000, "debit") }

(* Near days: ledger records one cent above the bank record, of similarity  *)
(* 1/18 on the same day or the day after, and of similarity 0.25 three days *)
(* after.                                                                   *)
NearDayBankShapes ==
    { Shape(<<2024, 3, 1>>, "Office Supply Co", 100000, "debit") }

NearDayLedgerShapes ==
    { Shape(<<2024, 3, 1>>, "Settlement for INV1024", 100010, "debit"),
      Shape(<<2024, 3, 2>>, "Settlement for INV1024", 100010, "debit"),
      Shape(<<2024, 3, 4>>, "Office Rent", 100010, "debit") }

(* Two ledger records of the bank record's amount outside the strict        *)
(* window, four or ten days after it, whose similarities to "Office Supply  *)
(* Co" are 0.5625, below the fuzzy threshold 0.6, and 0.625, above it.      *)
FuzzyRankingDates == { <<2024, 3, 5>>, <<2024, 3, 11>> }

ScenarioFuzzyRanking ==
    { << <<Tx("b1", <<2024, 3, 1>>, "Office Supply Co", 100000, "debit", "bank")>>,
         << Tx("l1", d[1], "Office Lunch", 100000, "debit", "ledger"),
            Tx("l2", d[2], "Office Chairs Co", 100000, "debit", "ledger") >> >>
      : d \in FuzzyRankingDates \X FuzzyRankingDates }

Inputs ==
    ScenarioReference \cup ScenarioFuzzy \cup ScenarioSplit
        \cup Family(AmountBankShapes, AmountLedgerShapes)
        \cup Family(ReferenceBankShapes, ReferenceLedgerShapes)
        \cup Family(SubCentBankShapes, SubCentLedgerShapes)
        \cup Family(FuzzyBankShapes, FuzzyLedgerShapes)
        \cup Family(SameDayBankShapes, SameDayLedgerShapes)
        \cup Family(NearDayBankShapes, NearDayLedgerShapes)
        \cup ScenarioRanking
        \cup ScenarioFuzzyRanking

inputVars == <<bankTransactions, ledgerTransactions, similarity, numericTokens>>

sortedVars == <<sortedBank, sortedLedger, ledgerIndex, bankIndex>>

callVars == <<mode, onProgress, previous, calls>>

State == [ matches |-> matches,
           matchedBankIds |-> matchedBankIds,
           matchedLedgerIds |-> matchedLedgerIds ]

Config == ConfigOf(mode)

(* The report, except for the checkpoint 92. *)
ReportWithout92(percent) ==
    IF onProgress /\ percent # 92 THEN Append(progress, percent) ELSE progress

Report(percent) == IF onProgress THEN Append(progress, percent) ELSE progress

SetState(st) ==
    /\ matches' = st.matches
    /\ matchedBankIds' = st.matchedBankIds
    /\ matchedLedgerIds' = st.matchedLedgerIds

Init ==
    /\ \E in \in Inputs :
         /\ bankTransactions = in[1]
         /\ ledgerTransactions = in[2]
         /\ similarity = SimilarityTable(in[1], in[2])
         /\ numericTokens = TokenTable(in[1], in[2])
    /\ mode = "accuracy"
    /\ onProgress = FALSE
    /\ pc = "idle"
    /\ now = 0
    /\ sortedBank = <<>>
    /\ sortedLedger = <<>>
    /\ ledgerIndex = <<>>
    /\ bankIndex = <<>>
    /\ matches = <<>>
    /\ matchedBankIds = {}
    /\ matchedLedgerIds = {}
    /\ progress = <<>>
    /\ result = <<>>
    /\ previous = <<>>
    /\ calls = 0
    /\ AppMounted

(* A call that starts from the claimed ids of the call before it. *)
CallKeepingClaimedIds(m, cb) ==
    /\ pc \in {"idle", "done"}
    /\ calls < MaxCalls
    /\ calls' = calls + 1
    /\ mode' = m
    /\ onProgress' = cb
    /\ previous' = IF pc = "done" THEN <<[mode |-> mode, result |-> result[1]]>> ELSE previous
    /\ result' = <<>>
    /\ matches' = <<>>
    /\ sortedBank' = <<>>
    /\ sortedLedger' = <<>>
    /\ ledgerIndex' = <<>>
    /\ bankIndex' = <<>>
    /\ progress' = IF cb THEN <<5>> ELSE <<>>
    /\ now' = now + 1
    /\ pc' = "sort"
    /\ UNCHANGED <<appVars, inputVars, matchedBankIds, matchedLedgerIds>>

(* reconcileTransactions is called: lines 205-240, up to the first await. *)
Enter(m, cb) ==
    /\ pc \in {"idle", "done"}
    /\ calls < MaxCalls
    /\ calls' = calls + 1
    /\ mode' = m
    /\ onProgress' = cb
    /\ previous' = IF pc = "done" THEN <<[mode |-> mode, result |-> result[1]]>> ELSE previous
    /\ result' = <<>>
    /\ matches' = <<>>
    /\ matchedBankIds' = {}
    /\ matchedLedgerIds' = {}
    /\ sortedBank' = <<>>
    /\ sortedLedger' = <<>>
    /\ ledgerIndex' = <<>>
    /\ bankIndex' = <<>>
    /\ progress' = IF cb THEN <<5>> ELSE <<>>
    /\ now' = now + 1
    /\ pc' = "sort"
    /\ UNCHANGED inputVars

(* A call of the engine on its own: the App stays as it is. *)
Call(m, cb) ==
    /\ Enter(m, cb)
    /\ UNCHANGED appVars

(* The sort of lines 243-244 without the copies [...]: the arguments sorted *)
(* in place.                                                                *)
SortAndIndexInPlace ==
    /\ pc = "sort"
    /\ bankTransactions' = SortByDate(bankTransactions)
    /\ ledgerTransactions' = SortByDate(ledgerTransactions)
    /\ sortedBank' = SortByDate(bankTransactions)
    /\ sortedLedger' = SortByDate(ledgerTransactions)
    /\ ledgerIndex' = createAmountIndex(SortByDate(ledgerTransactions))
    /\ bankIndex' = createAmountIndex(SortByDate(bankTransactions))
    /\ progress' = Report(15)
    /\ now' = now + 1
    /\ pc' = "pass1"
    /\ UNCHANGED <<appVars, similarity, numericTokens, callVars, matches, matchedBankIds,
                   matchedLedgerIds, result>>

(* Lines 242-251: the sorted copies and the amount indexes. *)
SortAndIndex ==
    /\ pc = "sort"
    /\ sortedBank' = SortByDate(bankTransactions)
    /\ sortedLedger' = SortByDate(ledgerTransactions)
    /\ ledgerIndex' = createAmountIndex(SortByDate(ledgerTransactions))
    /\ bankIndex' = createAmountIndex(SortByDate(bankTransactions))
    /\ progress' = Report(15)
    /\ now' = now + 1
    /\ pc' = "pass1"
    /\ UNCHANGED <<appVars, inputVars, callVars, matches, matchedBankIds, matchedLedgerIds, result>>

Pass1 ==
    /\ pc = "pass1"
    /\ SetState(Pass1Loop(State, sortedBank, 1, ledgerIndex, Config, now))
    /\ progress' = Report(30)
    /\ now' = now + 1
    /\ pc' = "pass2"
    /\ UNCHANGED <<appVars, inputVars, callVars, sortedVars, result>>

Pass2 ==
    /\ pc = "pass2"
    /\ SetState(Pass2Loop(State, sortedBank, 1, ledgerIndex, Config, now))
    /\ progress' = Report(50)
    /\ now' = now + 1
    /\ pc' = "pass3"
    /\ UNCHANGED <<appVars, inputVars, callVars, sortedVars, result>>

Pass3 ==
    /\ pc = "pass3"
    /\ SetState(Pass3Loop(State, sortedBank, 1, ledgerIndex, Config, now))
    /\ progress' = Report(70)
    /\ now' = now + 1
    /\ pc' = "pass4"
    /\ UNCHANGED <<appVars, inputVars, callVars, sortedVars, result>>

Pass4 ==
    /\ pc = "pass4"
    /\ SetState(Pass4Loop(State, sortedBank, 1, ledgerIndex, Config, now))
    /\ progress' = Report(85)
    /\ now' = now + 1
    /\ pc' = "split"
    /\ UNCHANGED <<appVars, inputVars, callVars, sortedVars, result>>

(* Lines 388-413; maxCombinationDepth is 4 or 2, so the pass always runs. *)
Pass5Split ==
    /\ pc = "split"
    /\ SetState(IF Config.maxCombinationDepth > 0
                THEN SplitLoop(State, sortedBank, 1, sortedLedger, Config, now)
                ELSE State)
    /\ progress' = Report(92)
    /\ now' = now + 1
    /\ pc' = "merge"
    /\ UNCHANGED <<appVars, inputVars, callVars, sortedVars, result>>

(* Lines 415-459: the merges, the last report, the aggregator, the return. *)
Pass5MergeAndReturn ==
    /\ pc = "merge"
    /\ LET st == IF Config.maxCombinationDepth > 0
                 THEN MergeLoop(State, sortedLedger, 1, sortedBank, Config, now)
                 ELSE State
       IN  /\ SetState(st)
           /\ result' = <<Aggregate(bankTransactions, ledgerTransactions, st)>>
    /\ progress' = Report(100)
    /\ pc' = "done"
    /\ UNCHANGED <<appVars, inputVars, callVars, sortedVars, now>>

Next ==
    \/ \E m \in Modes, cb \in BOOLEAN : Call(m, cb)
    \/ SortAndIndex
    \/ Pass1
    \/ Pass2
    \/ Pass3
    \/ Pass4
    \/ Pass5Split
    \/ Pass5MergeAndReturn

Spec == Init /\ [][Next]_vars

(***************************************************************************)
(* Properties of the returned ReconciliationResult.                        *)
(***************************************************************************)
Done == pc = "done"

Returned == result[1]

Groups == IF Done THEN Returned.matches ELSE <<>>

CountIn(txs, id) == Cardinality({ i \in DOMAIN txs : txs[i].id = id })

(* The places, <<group, position>>, where an id stands on a side of the groups. *)
PlacesInGroups(ms, side, id) ==
    UNION { { <<g, i>> : i \in { j \in DOMAIN ms[g][side] : ms[g][side][j].id = id } }
            : g \in DOMAIN ms }

Places(ms, side, unmatched, id) ==
    Cardinality(PlacesInGroups(ms, side, id)) + CountIn(unmatched, id)

RECURSIVE SumAmounts(_)
SumAmounts(txs) == IF txs = <<>> THEN 0 ELSE Head(txs).amount + SumAmounts(Tail(txs))

(* C1: when a call has returned, every bank id of the input stands in       *)
(* exactly one place among the bank lists of the groups and unmatchedBank,  *)
(* and every ledger id in exactly one place among the ledger lists of the   *)
(* groups and unmatchedLedger.                                             *)
C1_PartitionOfIds ==
    Done =>
        /\ \A i \in DOMAIN bankTransactions :
             Places(Returned.matches, "bank", Returned.unmatchedBank,
                    bankTransactions[i].id) = 1
        /\ \A i \in DOMAIN ledgerTransactions :
             Places(Returned.matches, "ledger", Returned.unmatchedLedger,
                    ledgerTransactions[i].id) = 1

(* A returned result with a one-to-one group, a second ledger record of the *)
(* same amount and date that the group left over, and a bank record that no *)
(* pass could place.                                                       *)
C1_GroupAndLeftovers ==
    /\ Done
    /\ Len(bankTransactions) = 2
    /\ Len(ledgerTransactions) = 2
    /\ Len(Returned.matches) = 1
    /\ Len(Returned.matches[1].bank) = 1
    /\ Len(Returned.matches[1].ledger) = 1
    /\ Len(Returned.unmatchedBank) = 1
    /\ Len(Returned.unmatchedLedger) = 1
    /\ Returned.unmatchedLedger[1].amount = Returned.matches[1].ledger[1].amount
    /\ Returned.unmatchedLedger[1].date = Returned.matches[1].ledger[1].date

(* C2: every group of a returned result has a bank record and a ledger      *)
(* record, also when an amount is below the amount tolerance.              *)
C2_GroupsAreNonEmpty ==
    \A g \in DOMAIN Groups :
        /\ Groups[g].bank # <<>>
        /\ Groups[g].ledger # <<>>

(* A bank record of amount 0 and no ledger record: the split pass returns   *)
(* the empty subset and a group without a ledger record is emitted.        *)
C2_GroupWithoutLedger ==
    /\ Done
    /\ ledgerTransactions = <<>>
    /\ \E g \in DOMAIN Groups :
         /\ Groups[g].type = "1-to-N"
         /\ Groups[g].ledger = <<>>
         /\ Groups[g].bank[1].amount = 0

(* C3: an exact or fuzzy group has one bank record and one ledger record; a *)
(* 1-to-N group has one bank record and at least two ledger records; an     *)
(* N-to-1 group has at least two bank records and one ledger record.        *)
C3_GroupShapes ==
    \A g \in DOMAIN Groups :
        LET m == Groups[g]
        IN  /\ m.type \in {"exact", "fuzzy"} => Len(m.bank) = 1 /\ Len(m.ledger) = 1
            /\ m.type = "1-to-N" => Len(m.bank) = 1 /\ Len(m.ledger) >= 2
            /\ m.type = "N-to-1" => Len(m.bank) >= 2 /\ Len(m.ledger) = 1

(* A 1-to-N group of one bank record of a positive amount and one ledger    *)
(* record: the pair that passes 1 to 4 refused is accepted as a subset.     *)
C3_SplitOfOne ==
    /\ Done
    /\ \E g \in DOMAIN Groups :
         /\ Groups[g].type = "1-to-N"
         /\ Len(Groups[g].bank) = 1
         /\ Len(Groups[g].ledger) = 1
         /\ Groups[g].bank[1].amount > 0

(* C4: in every 1-to-N group the ledger amounts add up to the amount of the *)
(* bank record, and in every N-to-1 group the bank amounts add up to the    *)
(* amount of the ledger record, to strictly less than the amount tolerance. *)
C4_SplitMergeAmountClosure ==
    \A g \in DOMAIN Groups :
        LET m == Groups[g]
        IN  /\ m.type = "1-to-N" =>
                 Abs(SumAmounts(m.ledger) - m.bank[1].amount) < AmountTolerance
            /\ m.type = "N-to-1" =>
                 Abs(SumAmounts(m.bank) - m.ledger[1].amount) < AmountTolerance

(* A returned 1-to-N group of at least two ledger records. *)
C4_SplitOfSeveral ==
    /\ Done
    /\ \E g \in DOMAIN Groups :
         /\ Groups[g].type = "1-to-N"
         /\ Len(Groups[g].ledger) >= 2
         /\ Groups[g].bank[1].amount > 0

InputCount == Len(bankTransactions) + Len(ledgerTransactions)

NothingMatched ==
    /\ Returned.unmatchedBank = bankTransactions
    /\ Returned.unmatchedLedger = ledgerTransactions
    /\ Returned.matches = <<>>

RateInRange ==
    /\ RLeq(RZero, Returned.stats.matchRate)
    /\ RLeq(Returned.stats.matchRate, R(100, 1))

(* C5 as stated: matchRate is within [0, 100] and is 0 exactly when both    *)
(* inputs are empty.                                                       *)
C5_ZeroRateIffNoInput ==
    Done =>
        /\ RateInRange
        /\ Returned.stats.matchRate = RZero <=> InputCount = 0

(* C5, amended: matchRate is within [0, 100] and is 0 exactly when no       *)
(* transaction was matched: every input record is in its unmatched list and *)
(* there is no group. Empty inputs are one such case.                       *)
C5_ZeroRateIffNothingMatched ==
    Done =>
        /\ RateInRange
        /\ Returned.stats.matchRate = RZero <=> NothingMatched
        /\ InputCount = 0 => Returned.stats.matchRate = RZero

(* A returned result for non-empty inputs in which nothing matched and the  *)
(* rate is 0.                                                              *)
C5_ZeroRateWithInput ==
    /\ Done
    /\ Len(bankTransactions) > 0
    /\ Len(ledgerTransactions) > 0
    /\ NothingMatched
    /\ Returned.stats.matchRate = RZero

(* Pass 1 has run in the current call. *)
Pass1Over == pc \in {"pass2", "pass3", "pass4", "split", "merge", "done"}

ReferenceWindow == IF mode = "accuracy" THEN 45 ELSE 10

IsReferenceGroup(m) ==
    /\ m.type = "exact"
    /\ m.confidence = R(99, 100)
    /\ m.reason = <<"Matched by Amount & Reference ID">>

ReferencePair(b, l) ==
    /\ b.type = l.type
    /\ SharesToken(b.description, l.description)
    /\ getDaysDiff(b.date, l.date) <= ReferenceWindow

SameBucket(b, l) == Abs(AmountKey(b.amount) - AmountKey(l.amount)) <= 1

PairedByReference(b, l) ==
    \E g \in DOMAIN matches :
        /\ IsReferenceGroup(matches[g])
        /\ matches[g].bank = <<b>>
        /\ matches[g].ledger = <<l>>

ClaimedByReference(side, t) ==
    \E g \in DOMAIN matches :
        /\ IsReferenceGroup(matches[g])
        /\ t.id \in IdsOf(matches[g][side])

BankRecords == { bankTransactions[i] : i \in DOMAIN bankTransactions }

LedgerRecords == { ledgerTransactions[i] : i \in DOMAIN ledgerTransactions }

(* C6 as stated: once pass 1 has run, a bank record and a ledger record of  *)
(* the same polarity that share a numeric token and lie within the mode's   *)
(* reference window (45 days, or 10) form a 0.99 exact group of pass 1.     *)
C6_ReferencePairIsMatched ==
    Pass1Over =>
        \A b \in BankRecords, l \in LedgerRecords :
            ReferencePair(b, l) => PairedByReference(b, l)

(* C6, amended: the pair must also lie in the same or an adjacent amount    *)
(* bucket, and a record is paired once. Then pass 1 places at least one of  *)
(* the two in a 0.99 exact group, and places them in one group together     *)
(* when neither has another such partner; whatever the similarity of the    *)
(* descriptions and whatever other candidates without the token exist.     *)
C6_ReferencePairInBucketIsMatched ==
    Pass1Over =>
        \A b \in BankRecords, l \in LedgerRecords :
            ReferencePair(b, l) /\ SameBucket(b, l) =>
                /\ ClaimedByReference("bank", b) \/ ClaimedByReference("ledger", l)
                /\ ( /\ \A l2 \in LedgerRecords \ {l} :
                            ~(ReferencePair(b, l2) /\ SameBucket(b, l2))
                     /\ \A b2 \in BankRecords \ {b} :
                            ~(ReferencePair(b2, l) /\ SameBucket(b2, l)) )
                   => PairedByReference(b, l)

(* Pass 1 has paired a bank record with a ledger record forty days later    *)
(* under another description, and left alone a ledger record of the same    *)
(* amount and polarity, one day from the bank record, without a token.      *)
C6_FarPairPreferred ==
    /\ Pass1Over
    /\ \E b \in BankRecords, l \in LedgerRecords :
         /\ PairedByReference(b, l)
         /\ getDaysDiff(b.date, l.date) = 40
         /\ b.description # l.description
         /\ \E l2 \in LedgerRecords \ {l} :
              /\ l2.type = b.type
              /\ SameBucket(b, l2)
              /\ getDaysDiff(b.date, l2.date) = 1
              /\ ~SharesToken(b.description, l2.description)
              /\ ~ClaimedByReference("ledger", l2)

InScenarioReference == <<bankTransactions, ledgerTransactions>> \in ScenarioReference

(* C7 as stated: the scenario of the two records "Invoice REF1024 Payment"  *)
(* (2024-01-05) and "Settlement for INV1024" (2024-03-01), 100.00 each,     *)
(* returns one group, made by pass 1: exact, confidence 0.99.               *)
C7_ScenarioGivesReferenceGroup ==
    InScenarioReference /\ Done =>
        /\ Len(Returned.matches) = 1
        /\ IsReferenceGroup(Returned.matches[1])

(* C7, amended: in that scenario the dates are 56 days apart, more than the *)
(* reference window of either mode, and the tokens REF1024 and INV1024      *)
(* differ; no pass matches the two records, and both are returned unmatched.*)
C7_ScenarioGivesNoGroup ==
    InScenarioReference /\ Done =>
        /\ getDaysDiff(bankTransactions[1].date, ledgerTransactions[1].date) = 56
        /\ ~SharesToken(bankTransactions[1].description,
                        ledgerTransactions[1].description)
        /\ NothingMatched

(* The scenario has returned, in accuracy mode. *)
C7_ScenarioReturned ==
    /\ InScenarioReference
    /\ Done
    /\ mode = "accuracy"
    /\ Returned.stats.unmatchedBankCount = 1
    /\ Returned.stats.unmatchedLedgerCount = 1

InScenarioFuzzy == <<bankTransactions, ledgerTransactions>> \in ScenarioFuzzy

(* C8: the scenario of the two records "Office Supply Co" (day D) and       *)
(* "Office Supplies Ltd" (day D + 6), 850.50 each, returns in accuracy mode *)
(* exactly one group, fuzzy, of the two records, whose similarity is at     *)
(* least 0.6; in speed mode it returns no group and both records unmatched. *)
C8_ScenarioFuzzy ==
    InScenarioFuzzy /\ Done =>
        /\ getDaysDiff(bankTransactions[1].date, ledgerTransactions[1].date) = 6
        /\ mode = "accuracy" =>
             /\ Len(Returned.matches) = 1
             /\ Returned.matches[1].type = "fuzzy"
             /\ Returned.matches[1].bank = bankTransactions
             /\ Returned.matches[1].ledger = ledgerTransactions
             /\ RLeq(R(6, 10), Similarity(bankTransactions[1].description,
                                          ledgerTransactions[1].description))
             /\ Returned.unmatchedBank = <<>>
             /\ Returned.unmatchedLedger = <<>>
        /\ mode = "speed" => NothingMatched

(* The scenario has returned in speed mode after it returned in accuracy    *)
(* mode with a fuzzy group.                                                *)
C8_ScenarioInBothModes ==
    /\ InScenarioFuzzy
    /\ Done
    /\ mode = "speed"
    /\ NothingMatched
    /\ previous # <<>>
    /\ previous[1].mode = "accuracy"
    /\ Len(previous[1].result.matches) = 1
    /\ previous[1].result.matches[1].type = "fuzzy"

InScenarioSplit == <<bankTransactions, ledgerTransactions>> \in ScenarioSplit

(* C9: the scenario of a bank record of 100.00 and three ledger records of  *)
(* 30.00, 40.00 and 30.00 of the same polarity within the strict window     *)
(* returns in accuracy mode (depth 4) exactly one group: 1-to-N, of the     *)
(* bank record and the three ledger records, confidence 0.85; nothing is    *)
(* unmatched.                                                              *)
C9_ScenarioSplit ==
    InScenarioSplit /\ Done /\ mode = "accuracy" =>
        /\ Len(Returned.matches) = 1
        /\ Returned.matches[1].type = "1-to-N"
        /\ Returned.matches[1].bank = bankTransactions
        /\ Len(Returned.matches[1].ledger) = 3
        /\ IdsOf(Returned.matches[1].ledger) = IdsOf(ledgerTransactions)
        /\ Returned.matches[1].confidence = R(85, 100)
        /\ Returned.unmatchedBank = <<>>
        /\ Returned.unmatchedLedger = <<>>

(* The scenario has returned in accuracy mode, with the three ledger        *)
(* records on three different days.                                        *)
C9_ScenarioReturned ==
    /\ InScenarioSplit
    /\ Done
    /\ mode = "accuracy"
    /\ Cardinality({ ledgerTransactions[i].date : i \in DOMAIN ledgerTransactions }) = 3
    /\ Len(Returned.matches) = 1
    /\ Len(Returned.matches[1].ledger) = 3

(* A result without the group ids and the reasons. *)
Outcome(r) ==
    [ groups |-> [ g \in DOMAIN r.matches |->
                     [ bank       |-> r.matches[g].bank,
                       ledger     |-> r.matches[g].ledger,
                       type       |-> r.matches[g].type,
                       confidence |-> r.matches[g].confidence ] ],
      unmatchedBank   |-> r.unmatchedBank,
      unmatchedLedger |-> r.unmatchedLedger ]

MembersOf(m) ==
    { m.bank[i] : i \in DOMAIN m.bank } \cup { m.ledger[i] : i \in DOMAIN m.ledger }

(* C11: at every point of a call, all the bank and ledger records of a      *)
(* group have one polarity (type).                                          *)
C11_OnePolarityPerGroup ==
    \A g \in DOMAIN matches :
        \A t \in MembersOf(matches[g]), u \in MembersOf(matches[g]) : t.type = u.type

(* A returned result with a group, in which a debit bank record is          *)
(* unmatched next to a credit ledger record of the same amount, one day     *)
(* later, that carries the same reference token.                            *)
C11_OppositePolarityLeftAlone ==
    /\ Done
    /\ Returned.matches # <<>>
    /\ \E i \in DOMAIN Returned.unmatchedBank, j \in DOMAIN Returned.unmatchedLedger :
         LET b == Returned.unmatchedBank[i]
             l == Returned.unmatchedLedger[j]
         IN  /\ b.type = "debit"
             /\ l.type = "credit"
             /\ SameBucket(b, l)
             /\ SharesToken(b.description, l.description)
             /\ getDaysDiff(b.date, l.date) = 1

OneToOne(m) == m.type \in {"exact", "fuzzy"} /\ Len(m.bank) = 1 /\ Len(m.ledger) = 1

(* C12: in every exact or fuzzy group the amount of the bank record and the *)
(* amount of the ledger record differ by no more than the amount tolerance, *)
(* 0.01.                                                                    *)
C12_OneToOneWithinTolerance ==
    \A g \in DOMAIN matches :
        OneToOne(matches[g]) =>
            Abs(matches[g].bank[1].amount - matches[g].ledger[1].amount) <= AmountTolerance

(* A returned exact group of a bank record of 1.000 and a ledger record of  *)
(* 1.014: the cent keys 100 and 101 are adjacent, the amounts 0.014 apart.  *)
C12_PairBeyondTolerance ==
    /\ Done
    /\ \E g \in DOMAIN Groups :
         /\ OneToOne(Groups[g])
         /\ Groups[g].type = "exact"
         /\ Groups[g].bank[1].amount = 1000
         /\ Groups[g].ledger[1].amount = 1014
         /\ SameBucket(Groups[g].bank[1], Groups[g].ledger[1])

(* C13: the confidence of every group is a number in [0, 1]; so is the      *)
(* penalised score that pass 4 gives a fuzzy group.                         *)
C13_ConfidenceInUnitInterval ==
    \A g \in DOMAIN matches :
        /\ RLeq(RZero, matches[g].confidence)
        /\ RLeq(matches[g].confidence, ROne)

(* A returned fuzzy group whose confidence was lowered by the date penalty: *)
(* similarity 0.75, six days of ten, confidence 0.63.                       *)
C13_PenalisedFuzzyGroup ==
    /\ Done
    /\ \E g \in DOMAIN Groups :
         /\ Groups[g].type = "fuzzy"
         /\ Similarity(Groups[g].bank[1].description,
                       Groups[g].ledger[1].description) = R(3, 4)
         /\ getDaysDiff(Groups[g].bank[1].date, Groups[g].ledger[1].date) = 6
         /\ Groups[g].confidence = R(63, 100)

(* C14: no step of a call changes the caller's arrays: bankTransactions and *)
(* ledgerTransactions keep their records, their order and their fields.     *)
C14_InputsNotMutated ==
    [][ /\ bankTransactions' = bankTransactions
        /\ ledgerTransactions' = ledgerTransactions ]_vars

(* A call has returned a group for ledger records that were not in date     *)
(* order: the sorted copy differs from the caller's array.                  *)
C14_SortedCopyDiffers ==
    /\ Done
    /\ Returned.matches # <<>>
    /\ sortedLedger # ledgerTransactions
    /\ IdsOf(sortedLedger) = IdsOf(ledgerTransactions)

(* C15: the stats of a returned result agree with its partition: matched    *)
(* plus unmatched is the total on each side, and matchRate is the matched   *)
(* share of all records times 100, 0 when there is no record.               *)
C15_StatsAgreeWithPartition ==
    Done =>
        LET s == Returned.stats
        IN  /\ s.totalBank = Len(bankTransactions)
            /\ s.totalLedger = Len(ledgerTransactions)
            /\ s.unmatchedBankCount = Len(Returned.unmatchedBank)
            /\ s.unmatchedLedgerCount = Len(Returned.unmatchedLedger)
            /\ s.matchedBankCount + s.unmatchedBankCount = s.totalBank
            /\ s.matchedLedgerCount + s.unmatchedLedgerCount = s.totalLedger
            /\ s.matchRate =
                 IF s.totalBank + s.totalLedger = 0 THEN RZero
                 ELSE R((s.matchedBankCount + s.matchedLedgerCount) * 100,
                        s.totalBank + s.totalLedger)

(* A returned result with a group of several ledger records, an unmatched   *)
(* record, and a rate strictly between 0 and 100.                           *)
C15_PartlyMatched ==
    /\ Done
    /\ \E g \in DOMAIN Groups : Len(Groups[g].ledger) >= 2
    /\ Returned.stats.unmatchedBankCount >= 1
    /\ RLt(RZero, Returned.stats.matchRate)
    /\ RLt(Returned.stats.matchRate, R(100, 1))

(* The pass that made a group, read from its kind and confidence: 1, 2, 3   *)
(* for the exact groups of 0.99, 0.95, 0.9; 4 fuzzy; 5 split; 6 merge.      *)
PassOf(m) ==
    IF m.type = "exact"
    THEN IF m.confidence = R(99, 100) THEN 1
         ELSE IF m.confidence = R(95, 100) THEN 2 ELSE 3
    ELSE IF m.type = "fuzzy" THEN 4
    ELSE IF m.type = "1-to-N" THEN 5 ELSE 6

(* The passes that have run to their end in the current call. *)
PassesOver ==
    CASE pc = "pass2" -> 1
      [] pc = "pass3" -> 2
      [] pc = "pass4" -> 3
      [] pc = "split" -> 4
      [] pc = "merge" -> 5
      [] pc = "done"  -> 6
      [] OTHER        -> 0

(* C16: the passes run in order and the groups stand in the order of their  *)
(* acceptance: at every point of a call the list holds groups of the passes *)
(* that have run only, the groups of an earlier pass come before those of a *)
(* later pass, no record of a group is a member of a later group, and the   *)
(* returned list is that list.                                              *)
C16_GroupsInPassOrder ==
    /\ \A g \in DOMAIN matches : PassOf(matches[g]) <= PassesOver
    /\ \A g \in DOMAIN matches, h \in DOMAIN matches :
         g < h =>
            /\ PassOf(matches[g]) <= PassOf(matches[h])
            /\ IdsOf(matches[g].bank) \cap IdsOf(matches[h].bank) = {}
            /\ IdsOf(matches[g].ledger) \cap IdsOf(matches[h].ledger) = {}
    /\ Done => Returned.matches = matches

(* A returned list with a group of pass 1, 2 or 3 followed by a group of    *)
(* pass 5.                                                                  *)
C16_EarlyThenLateGroup ==
    /\ Done
    /\ Len(Returned.matches) = 2
    /\ PassOf(Returned.matches[1]) <= 3
    /\ PassOf(Returned.matches[2]) >= 5
    /\ Returned.matches[1].ledger # <<>>
    /\ Returned.matches[2].ledger # <<>>

Checkpoints == <<5, 15, 30, 50, 70, 85, 92, 100>>

(* The number of checkpoints that lie behind each point of a call. *)
CheckpointsBehind ==
    CASE pc = "sort"  -> 1
      [] pc = "pass1" -> 2
      [] pc = "pass2" -> 3
      [] pc = "pass3" -> 4
      [] pc = "pass4" -> 5
      [] pc = "split" -> 6
      [] pc = "merge" -> 7
      [] pc = "done"  -> 8
      [] OTHER        -> 0

ReportedSoFar ==
    /\ progress = IF onProgress THEN SubSeq(Checkpoints, 1, CheckpointsBehind) ELSE <<>>
    /\ onProgress /\ result # <<>> => progress = Checkpoints

(* The groups a step adds belong to a pass whose checkpoint (the third for  *)
(* pass 1, the eighth for the merges) was not reported before the step.     *)
ClaimsBeforeCheckpoint ==
    onProgress =>
        \A g \in DOMAIN matches' :
            g > Len(matches) => PassOf(matches'[g]) + 2 > Len(progress)

(* C17: a call with a callback reports 5, 15, 30, 50, 70, 85, 92, 100 in    *)
(* that order, one value at each checkpoint; the checkpoint of a pass is    *)
(* reported after all the groups of that pass were made, and 100 is         *)
(* reported before the result is returned.                                  *)
C17_ProgressCheckpoints ==
    /\ []ReportedSoFar
    /\ [][ClaimsBeforeCheckpoint]_vars

(* A call with a callback has returned a group of pass 5 and has reported   *)
(* all eight checkpoints.                                                   *)
C17_AllCheckpointsReported ==
    /\ Done
    /\ onProgress
    /\ Len(progress) = 8
    /\ \E g \in DOMAIN Groups : PassOf(Groups[g]) = 5 /\ Len(Groups[g].ledger) >= 2

(***************************************************************************)
(* findSubsetSum on its own.  The pool is held in ledgerTransactions and   *)
(* the anchor, whose amount is the target, in bankTransactions, as in the  *)
(* call of line 406; the depth is drawn from 1..MaxDepth and the outcome   *)
(* is held in result.                                                      *)
(***************************************************************************)
MaxPool == 4

MaxDepth == 4

PoolIds == <<"p1", "p2", "p3", "p4", "p5", "p6">>

PoolAmounts == { 0, 30000, 30005, 40000 }

Targets == { 0, 30000, 70000, 100000, 100010 }

Pools ==
    { [i \in DOMAIN f |->
         Tx(PoolIds[i], <<2024, 3, 1>>, "Office Supplies Ltd", f[i], "debit", "ledger")]
      : f \in SeqsUpTo(PoolAmounts, MaxPool) }

SubsetInit ==
    /\ ledgerTransactions \in Pools
    /\ \E t \in Targets :
         bankTransactions = <<Tx("b1", <<2024, 3, 1>>, "Office Supply Co", t, "debit", "bank")>>
    /\ similarity = <<>>
    /\ numericTokens = <<>>
    /\ mode = "accuracy"
    /\ onProgress = FALSE
    /\ pc = "idle"
    /\ now = 0
    /\ sortedBank = <<>>
    /\ sortedLedger = <<>>
    /\ ledgerIndex = <<>>
    /\ bankIndex = <<>>
    /\ matches = <<>>
    /\ matchedBankIds = {}
    /\ matchedLedgerIds = {}
    /\ progress = <<>>
    /\ result = <<>>
    /\ previous = <<>>
    /\ calls = 0
    /\ AppMounted

FindSubset(depth) ==
    /\ pc = "idle"
    /\ result' = << [ depth  |-> depth,
                      subset |-> findSubsetSum(ledgerTransactions,
                                               bankTransactions[1].amount,
                                               DEFAULT_CONFIG, depth) ] >>
    /\ pc' = "done"
    /\ UNCHANGED <<appVars, inputVars, callVars, sortedVars, matches, matchedBankIds,
                   matchedLedgerIds, progress, now>>

SubsetNext == \E depth \in 1..MaxDepth : FindSubset(depth)

SubsetSpec == SubsetInit /\ [][SubsetNext]_vars

RECURSIVE SumOfPicked(_, _)
SumOfPicked(pool, S) ==
    IF S = {} THEN 0
    ELSE LET i == CHOOSE j \in S : TRUE
         IN  pool[i].amount + SumOfPicked(pool, S \ {i})

(* Some set of at most depth items of the pool sums to the target, to       *)
(* strictly less than the tolerance.                                        *)
SubsetExists(pool, target, depth) ==
    \E S \in SUBSET DOMAIN pool :
        /\ Cardinality(S) <= depth
        /\ Abs(SumOfPicked(pool, S) - target) < AmountTolerance

(* C18: for a pool of non-negative amounts and a depth of at least 1,       *)
(* findSubsetSum returns a subset exactly when some set of at most depth    *)
(* items of the pool sums to within the tolerance of the target; a returned *)
(* subset consists of distinct items of the pool, at most depth of them,    *)
(* and sums to within the tolerance of the target.                          *)
C18_SubsetSumSoundAndComplete ==
    pc = "done" =>
        LET pool   == ledgerTransactions
            target == bankTransactions[1].amount
            depth  == result[1].depth
            subset == result[1].subset
        IN  /\ subset.found <=> SubsetExists(pool, target, depth)
            /\ subset.found =>
                 /\ \A i \in DOMAIN subset.items :
                        \E k \in DOMAIN pool : pool[k] = subset.items[i]
                 /\ Cardinality(IdsOf(subset.items)) = Len(subset.items)
                 /\ Len(subset.items) <= depth
                 /\ Abs(SumAmounts(subset.items) - target) < AmountTolerance

(* findSubsetSum has returned three items, at depth 3, of a pool of four    *)
(* that holds an item of 30.005, for a target that no two items reach.      *)
C18_ThreeOfFour ==
    /\ pc = "done"
    /\ Len(ledgerTransactions) = 4
    /\ bankTransactions[1].amount = 100000
    /\ result[1].depth = 3
    /\ result[1].subset.found
    /\ Len(result[1].subset.items) = 3
    /\ \E k \in DOMAIN ledgerTransactions : ledgerTransactions[k].amount = 30005

(* findSubsetSum has returned null at depth 2 for a pool of which three     *)
(* items reach the target.                                                  *)
C18_DepthCapRefuses ==
    /\ pc = "done"
    /\ result[1].depth = 2
    /\ ~result[1].subset.found
    /\ SubsetExists(ledgerTransactions, bankTransactions[1].amount, 3)

(* The ledger records that were claimed by the groups before group g. *)
ClaimedBefore(g) == UNION { IdsOf(matches[h].ledger) : h \in 1..(g - 1) }

(* The candidates of pass 1 to 4 for the bank record of group g, at the     *)
(* time of its selection, within the given window of days.                  *)
CandidatesAt(g, window) ==
    LET b == matches[g].bank[1]
    IN  { l \in LedgerRecords :
            /\ l.id \notin ClaimedBefore(g)
            /\ l.type = b.type
            /\ SameBucket(b, l)
            /\ getDaysDiff(b.date, l.date) <= window }

(* C19: the ledger record that pass 3 selects for a bank record never has a *)
(* similarity more than 0.1 below that of another candidate of the bank     *)
(* record, whatever the number of candidates.                               *)
C19_Pass3SelectsBySimilarity ==
    \A g \in DOMAIN matches :
        PassOf(matches[g]) = 3 =>
            LET b == matches[g].bank[1]
                l == matches[g].ledger[1]
            IN  \A c \in CandidatesAt(g, Config.dateWindowStrict) :
                    RLeq(RSub(Similarity(b.description, c.description),
                              Similarity(b.description, l.description)),
                         R(1, 10))

(* Pass 3 has selected, of three candidates one, two and three days away    *)
(* with similarities 0.625, 0.6875 and 0.75, the first.                     *)
C19_NearestOfThreeSelected ==
    /\ Done
    /\ mode = "accuracy"
    /\ Len(Groups) = 1
    /\ PassOf(Groups[1]) = 3
    /\ Cardinality(CandidatesAt(1, 3)) = 3
    /\ getDaysDiff(Groups[1].bank[1].date, Groups[1].ledger[1].date) = 1
    /\ Similarity(Groups[1].bank[1].description, Groups[1].ledger[1].description) = R(5, 8)
    /\ \E c \in CandidatesAt(1, 3) :
         /\ getDaysDiff(Groups[1].bank[1].date, c.date) = 3
         /\ Similarity(Groups[1].bank[1].description, c.description) = R(3, 4)
    /\ \E c \in CandidatesAt(1, 3) :
         /\ getDaysDiff(Groups[1].bank[1].date, c.date) = 2
         /\ Similarity(Groups[1].bank[1].description, c.description) = R(11, 16)

FuzzyThreshold == IF mode = "accuracy" THEN R(6, 10) ELSE R(85, 100)

LooseWindow == IF mode = "accuracy" THEN 10 ELSE 3

(* similarity - (date difference / loose window) x 0.2 *)
PenalisedScore(b, l) ==
    RSub(Similarity(b.description, l.description),
         R(getDaysDiff(b.date, l.date) * 2, LooseWindow * 10))

(* C20: every fuzzy group pairs a bank record with a ledger record whose    *)
(* raw similarity is at least the threshold of the mode (0.6, or 0.85); its *)
(* confidence is the similarity less (date difference / loose window) x 0.2;*)
(* and the ledger record had the greatest penalised score among the         *)
(* unclaimed candidates of the bank record (same polarity, amount bucket,   *)
(* loose window) when it was selected.                                      *)
C20_FuzzyGroupsFollowPass4Rule ==
    \A g \in DOMAIN matches :
        matches[g].type = "fuzzy" =>
            /\ OneToOne(matches[g])
            /\ LET b == matches[g].bank[1]
                   l == matches[g].ledger[1]
               IN  /\ RLeq(FuzzyThreshold, Similarity(b.description, l.description))
                   /\ matches[g].confidence = PenalisedScore(b, l)
                   /\ l \in CandidatesAt(g, LooseWindow)
                   /\ \A c \in CandidatesAt(g, LooseWindow) :
                          RLeq(PenalisedScore(b, c), PenalisedScore(b, l))

(* A returned fuzzy group with a ledger record four days away, selected     *)
(* over an equally similar candidate ten days away that came first in the   *)
(* list of candidates.                                                      *)
C20_NearerOfTwoSelected ==
    /\ Done
    /\ mode = "accuracy"
    /\ \E g \in DOMAIN Groups :
         /\ Groups[g].type = "fuzzy"
         /\ getDaysDiff(Groups[g].bank[1].date, Groups[g].ledger[1].date) = 4
         /\ Groups[g].confidence = R(67, 100)
         /\ \E c \in CandidatesAt(g, 10) :
              /\ getDaysDiff(Groups[g].bank[1].date, c.date) = 10
              /\ c.description = Groups[g].ledger[1].description
              /\ getTime(c.date) < getTime(Groups[g].ledger[1].date)

(* The ids of one side that the groups of passes 1 and 2 hold. *)
ClaimedByPass2(side) ==
    UNION { IdsOf(matches[g][side]) : g \in { h \in DOMAIN matches : PassOf(matches[h]) <= 2 } }

(* C21: once pass 2 has run, (a) every group of confidence 0.95 is an exact *)
(* pair of a bank record and a ledger record of its polarity, amount bucket *)
(* and date, unclaimed when selected, and no other such candidate was more  *)
(* similar to the bank description; (b) a bank record that passes 1 and 2   *)
(* left unclaimed has no unclaimed ledger record of its polarity, amount    *)
(* bucket and date, however dissimilar the descriptions.                    *)
C21_Pass2TakesMostSimilarSameDay ==
    PassesOver >= 2 =>
        /\ \A g \in DOMAIN matches :
               PassOf(matches[g]) = 2 =>
                   /\ OneToOne(matches[g])
                   /\ LET b == matches[g].bank[1]
                          l == matches[g].ledger[1]
                      IN  /\ l \in CandidatesAt(g, 0)
                          /\ \A c \in CandidatesAt(g, 0) :
                                 RLeq(Similarity(b.description, c.description),
                                      Similarity(b.description, l.description))
        /\ \A b \in BankRecords : \A l \in LedgerRecords :
               ( /\ b.id \notin ClaimedByPass2("bank")
                 /\ l.type = b.type
                 /\ SameBucket(b, l)
                 /\ getDaysDiff(b.date, l.date) = 0 )
               => l.id \in ClaimedByPass2("ledger")

(* Pass 2 has paired a bank record with the second of two same-day          *)
(* candidates, of similarity 0.75, the first having 0.625.                  *)
C21_SecondCandidateSelected ==
    /\ pc = "pass3"
    /\ \E g \in DOMAIN matches :
         /\ PassOf(matches[g]) = 2
         /\ Cardinality(CandidatesAt(g, 0)) = 2
         /\ matches[g].ledger[1].id = "l2"
         /\ Similarity(matches[g].bank[1].description, matches[g].ledger[1].description) = R(3, 4)
         /\ \E c \in CandidatesAt(g, 0) :
              /\ c.id = "l1"
              /\ Similarity(matches[g].bank[1].description, c.description) = R(5, 8)

(* Pass 2 has paired records whose descriptions have a similarity of 1/18. *)
C21_DissimilarPairSelected ==
    /\ pc = "pass3"
    /\ \E g \in DOMAIN matches :
         /\ PassOf(matches[g]) = 2
         /\ Similarity(matches[g].bank[1].description, matches[g].ledger[1].description) = R(1, 18)

StrictWindow == IF mode = "accuracy" THEN 3 ELSE 1

(* C22: every group keeps the date window of its pass under the mode of the *)
(* call: a 0.99 group within the reference window (45 / 10 days), a 0.95    *)
(* group at 0 days, a 0.9 group within the strict window (3 / 1), a fuzzy   *)
(* group within the loose window (10 / 3), and every record of the many     *)
(* side of a split or merge within the strict window of the single record.  *)
C22_GroupsWithinWindows ==
    \A g \in DOMAIN matches :
        LET m == matches[g]
            p == PassOf(m)
        IN  /\ p <= 4 =>
                 /\ OneToOne(m)
                 /\ getDaysDiff(m.bank[1].date, m.ledger[1].date)
                        <= ( CASE p = 1 -> ReferenceWindow
                               [] p = 2 -> 0
                               [] p = 3 -> StrictWindow
                               [] p = 4 -> LooseWindow )
            /\ p = 5 =>
                 /\ Len(m.bank) = 1
                 /\ \A i \in DOMAIN m.ledger :
                        getDaysDiff(m.bank[1].date, m.ledger[i].date) <= StrictWindow
            /\ p = 6 =>
                 /\ Len(m.ledger) = 1
                 /\ \A i \in DOMAIN m.bank :
                        getDaysDiff(m.bank[i].date, m.ledger[1].date) <= StrictWindow

(* A speed run has returned with a bank record and a ledger record of the   *)
(* same amount and polarity two days apart, inside the strict window of     *)
(* accuracy mode and outside that of speed mode, both left unmatched.       *)
C22_SpeedLeavesTwoDayPair ==
    /\ Done
    /\ mode = "speed"
    /\ \E i \in DOMAIN Returned.unmatchedBank : \E j \in DOMAIN Returned.unmatchedLedger :
         LET b == Returned.unmatchedBank[i]
             l == Returned.unmatchedLedger[j]
         IN  /\ b.type = l.type
             /\ b.amount = l.amount
             /\ getDaysDiff(b.date, l.date) = 2

(* An accuracy run has returned a fuzzy group at the edge of the loose      *)
(* window, ten days apart.                                                  *)
C22_FuzzyAtEdgeOfWindow ==
    /\ Done
    /\ mode = "accuracy"
    /\ \E g \in DOMAIN Groups :
         /\ Groups[g].type = "fuzzy"
         /\ getDaysDiff(Groups[g].bank[1].date, Groups[g].ledger[1].date) = 10

(***************************************************************************)
(* getSimilarity and extractNumericTokens on their own.  The two           *)
(* descriptions are those of one bank record and one ledger record;        *)
(* similarity and numericTokens are empty until the function is applied.   *)
(***************************************************************************)
TextDescriptions ==
    { "Invoice REF1024 Payment", "Cheque REF-1024 cleared", "invoice ref1024 payment",
      "Bank Charges", "Office Supply Co", "The Office Supply Co.", "Office Supply",
      "Rent", "Rnt", "Paid 2024 ref 2024-INV-001", "Cheque 1024 no 12 AB12" }

TextInit ==
    /\ \E d1 \in TextDescriptions, d2 \in TextDescriptions :
         /\ bankTransactions = <<Tx("b1", <<2024, 3, 1>>, d1, 100000, "debit", "bank")>>
         /\ ledgerTransactions = <<Tx("l1", <<2024, 3, 1>>, d2, 100000, "debit", "ledger")>>
    /\ similarity = <<>>
    /\ numericTokens = <<>>
    /\ mode = "accuracy"
    /\ onProgress = FALSE
    /\ pc = "idle"
    /\ now = 0
    /\ sortedBank = <<>>
    /\ sortedLedger = <<>>
    /\ ledgerIndex = <<>>
    /\ bankIndex = <<>>
    /\ matches = <<>>
    /\ matchedBankIds = {}
    /\ matchedLedgerIds = {}
    /\ progress = <<>>
    /\ result = <<>>
    /\ previous = <<>>
    /\ calls = 0
    /\ AppMounted

GetSimilarity ==
    /\ DOMAIN similarity = {}
    /\ similarity' = SimilarityTable(bankTransactions, ledgerTransactions)
    /\ UNCHANGED <<appVars, bankTransactions, ledgerTransactions, numericTokens, callVars, pc,
                   sortedVars, matches, matchedBankIds, matchedLedgerIds, progress,
                   result, now>>

ExtractNumericTokens ==
    /\ DOMAIN numericTokens = {}
    /\ numericTokens' = TokenTable(bankTransactions, ledgerTransactions)
    /\ UNCHANGED <<appVars, bankTransactions, ledgerTransactions, similarity, callVars, pc,
                   sortedVars, matches, matchedBankIds, matchedLedgerIds, progress,
                   result, now>>

TextNext == GetSimilarity \/ ExtractNumericTokens

TextSpec == TextInit /\ [][TextNext]_vars

(* The scoring function as the specification words it: the edit-distance   *)
(* score counts only when both normalized strings are longer than 3 and     *)
(* their lengths differ by less than 5.                                     *)
SpecifiedScore(s1, s2) ==
    LET tokens1 == Range(Runs(s1, NormKeepChars))
        tokens2 == Range(Runs(s2, NormKeepChars))
        jaccard == R(Cardinality(tokens1 \cap tokens2), Cardinality(tokens1 \cup tokens2))
        containment == IF Includes(s1, s2) \/ Includes(s2, s1) THEN R(85, 100) ELSE RZero
        edit == IF Len(s1) > 3 /\ Len(s2) > 3 /\ Abs(Len(s1) - Len(s2)) < 5
                THEN RSub(ROne, R(levenshteinDistance(s1, s2), Max2(Len(s1), Len(s2))))
                ELSE RZero
    IN  IF s1 = <<>> \/ s2 = <<>> THEN RZero
        ELSE IF s1 = s2 THEN ROne
        ELSE RMax(RMax(jaccard, containment), edit)

SpecifiedSimilarity(str1, str2) ==
    IF extractNumericTokens(str1) \cap extractNumericTokens(str2) # {}
    THEN R(98, 100)
    ELSE Bind(<<normalizeStr(str1), normalizeStr(str2)>>,
              LAMBDA n : SpecifiedScore(n[1], n[2]))

(* C23: getSimilarity(str1, str2) is 0.98 when the two descriptions share a *)
(* numeric token; otherwise 0 when a normalized text is empty; otherwise 1  *)
(* when the normalized texts are equal; otherwise the greatest of the       *)
(* Jaccard score, the containment score and the edit-distance score, the    *)
(* last counted only when both normalized strings are longer than 3 and     *)
(* their lengths differ by less than 5.                                     *)
C23_SimilarityAsSpecified ==
    \A p \in DOMAIN similarity :
        similarity[p] = SpecifiedSimilarity(Chars(p[1]), Chars(p[2]))

(* getSimilarity has scored "Rent" against "Rnt", whose normalized text has *)
(* three characters, by the edit distance: 0.75.                            *)
C23_ShortSecondStringScored ==
    /\ <<"Rent", "Rnt">> \in DOMAIN similarity
    /\ similarity[<<"Rent", "Rnt">>] = R(3, 4)

(* Where the normalized strings are both longer than 3, or the first is not *)
(* longer than 3, getSimilarity is the function of the specification.       *)
C23_SimilarityAsSpecifiedElsewhere ==
    \A p \in DOMAIN similarity :
        LET s1 == normalizeStr(Chars(p[1]))
            s2 == normalizeStr(Chars(p[2]))
        IN  (Len(s1) <= 3 \/ Len(s2) > 3) =>
                similarity[p] = SpecifiedSimilarity(Chars(p[1]), Chars(p[2]))

LowerCase(s) == [i \in DOMAIN s |-> ToLowerChar(s[i])]

(* A reference identifier as the specification words it: (a) digits only,   *)
(* three or more, not a value of 2020..2030; or (b) a letter and three or   *)
(* more digits.                                                             *)
SpecifiedQualifies(clean) ==
    \/ /\ Len(clean) >= 3
       /\ \A i \in DOMAIN clean : clean[i] \in DigitChars
       /\ ~(DigitsValue(clean) >= 2020 /\ DigitsValue(clean) <= 2030)
    \/ /\ \E i \in DOMAIN clean : clean[i] \in LetterChars
       /\ Len(SelectChars(clean, DigitChars)) >= 3

SpecifiedTokens(str) ==
    LET cands == TokenCandidates(str)
        cleans == { SelectChars(cands[i], AlnumChars) : i \in DOMAIN cands }
    IN  { LowerCase(c) : c \in { x \in cleans : SpecifiedQualifies(x) } }

(* C24: extractNumericTokens gives the hyphen-stripped word tokens of the   *)
(* description that are (a) digits only, of length >= 3 and not a value of  *)
(* 2020..2030, or (b) hold a letter and at least 3 digits; and it gives     *)
(* them case-normalized: tokens that differ in letter case only are one     *)
(* element of the output, in every description.                             *)
C24_TokensAsSpecified ==
    /\ \A d \in DOMAIN numericTokens :
           { LowerCase(t) : t \in numericTokens[d] } = SpecifiedTokens(Chars(d))
    /\ \A d \in DOMAIN numericTokens, e \in DOMAIN numericTokens :
           \A t \in numericTokens[d], u \in numericTokens[e] :
               LowerCase(t) = LowerCase(u) => t = u

(* extractNumericTokens has given REF1024 for one description and ref1024   *)
(* for the same description in lower case.                                  *)
C24_CaseKeptInTokens ==
    /\ DOMAIN numericTokens = { "Invoice REF1024 Payment", "invoice ref1024 payment" }
    /\ numericTokens["Invoice REF1024 Payment"] = { <<"R", "E", "F", "1", "0", "2", "4">> }
    /\ numericTokens["invoice ref1024 payment"] = { <<"r", "e", "f", "1", "0", "2", "4">> }

(* On the descriptions without a token that starts with a year, the output  *)
(* is the specified set of tokens up to letter case.                        *)
C24_TokensAsSpecifiedUpToCase ==
    \A d \in DOMAIN numericTokens :
        d # "Paid 2024 ref 2024-INV-001" =>
            { LowerCase(t) : t \in numericTokens[d] } = SpecifiedTokens(Chars(d))

(* extractNumericTokens has dropped the token 2024INV001, which holds       *)
(* letters and seven digits, for the year it starts with.                     *)
C24_TokenWithYearPrefixDropped ==
    /\ "Paid 2024 ref 2024-INV-001" \in DOMAIN numericTokens
    /\ numericTokens["Paid 2024 ref 2024-INV-001"] = {}
    /\ SpecifiedTokens(Chars("Paid 2024 ref 2024-INV-001"))
           = { <<"2", "0", "2", "4", "i", "n", "v", "0", "0", "1">> }

(* The pairs of a bank record and a ledger record that the returned result  *)
(* lists as unmatched.                                                      *)
UnmatchedPairs ==
    IF Done
    THEN { <<Returned.unmatchedBank[i], Returned.unmatchedLedger[j]>> :
             i \in DOMAIN Returned.unmatchedBank, j \in DOMAIN Returned.unmatchedLedger }
    ELSE {}

(* C25: a returned result leaves no obvious pair: no unmatched bank record  *)
(* and unmatched ledger record of one polarity, with cent keys at most 1    *)
(* apart, on the same calendar date.                                        *)
C25_NoSameDayPairLeft ==
    \A p \in UnmatchedPairs :
        ~( /\ p[1].type = p[2].type
           /\ SameBucket(p[1], p[2])
           /\ getDaysDiff(p[1].date, p[2].date) = 0 )

(* A result with a same-day pair of similarity 1/18 matched by pass 2, the  *)
(* ledger record one cent above the bank record, and with unmatched records *)
(* of the same polarity and bucket left on both sides, three days apart.    *)
C25_SameDayPairTakenOthersLeft ==
    /\ Done
    /\ \E g \in DOMAIN Groups :
         /\ PassOf(Groups[g]) = 2
         /\ Groups[g].ledger[1].amount = Groups[g].bank[1].amount + 10
         /\ Similarity(Groups[g].bank[1].description, Groups[g].ledger[1].description) = R(1, 18)
    /\ \E p \in UnmatchedPairs :
         /\ p[1].type = p[2].type
         /\ SameBucket(p[1], p[2])
         /\ getDaysDiff(p[1].date, p[2].date) = 3

NearDayPair(b, l) ==
    /\ b.type = l.type
    /\ SameBucket(b, l)
    /\ getDaysDiff(b.date, l.date) <= 1

(* C26 as stated: in either mode a returned result leaves no unmatched bank *)
(* record and unmatched ledger record of one polarity, with cent keys at    *)
(* most 1 apart, dated at most 1 day apart.                                 *)
C26_NoNearDayPairLeft ==
    \A p \in UnmatchedPairs : ~NearDayPair(p[1], p[2])

(* C26, amended: a result of speed mode leaves no such pair.  A result of   *)
(* accuracy mode leaves one only when the bank record has another ledger    *)
(* record of its polarity and amount bucket more than 1 and at most 3 days  *)
(* away whose similarity is below 0.5: pass 3 accepts or rejects the first  *)
(* of the ranking only, and that one can be the farther record.             *)
C26_NearDayPairLeftBehindFartherCandidate ==
    \A p \in UnmatchedPairs :
        NearDayPair(p[1], p[2]) =>
            /\ mode = "accuracy"
            /\ \E c \in LedgerRecords :
                 /\ c.type = p[1].type
                 /\ SameBucket(p[1], c)
                 /\ getDaysDiff(p[1].date, c.date) > 1
                 /\ getDaysDiff(p[1].date, c.date) <= 3
                 /\ RLt(Similarity(p[1].description, c.description), R(5, 10))

(* An accuracy run has left a bank record and a ledger record one day and   *)
(* one cent apart unmatched, a ledger record three days away having the     *)
(* similarity 0.25 against the 1/18 of the near one.                        *)
C26_NearDayPairLeft ==
    /\ Done
    /\ mode = "accuracy"
    /\ Groups = <<>>
    /\ \E p \in UnmatchedPairs :
         /\ NearDayPair(p[1], p[2])
         /\ getDaysDiff(p[1].date, p[2].date) = 1
         /\ Similarity(p[1].description, p[2].description) = R(1, 18)
         /\ \E j \in DOMAIN Returned.unmatchedLedger :
              /\ getDaysDiff(p[1].date, Returned.unmatchedLedger[j].date) = 3
              /\ Similarity(p[1].description, Returned.unmatchedLedger[j].description) = R(1, 4)

(* A speed run has matched a pair one day apart of similarity 1/18 in pass  *)
(* 3.                                                                       *)
C26_SpeedTakesNearDayPair ==
    /\ Done
    /\ mode = "speed"
    /\ \E g \in DOMAIN Groups :
         /\ PassOf(Groups[g]) = 3
         /\ getDaysDiff(Groups[g].bank[1].date, Groups[g].ledger[1].date) = 1
         /\ Similarity(Groups[g].bank[1].description, Groups[g].ledger[1].description) = R(1, 18)

(* The ids of one side that the groups of passes 1 to 4 hold. *)
ClaimedByPass4(side) ==
    UNION { IdsOf(matches[g][side]) : g \in { h \in DOMAIN matches : PassOf(matches[h]) <= 4 } }

(* A ledger record that qualifies for the bank record in pass 4: of its     *)
(* polarity and amount bucket, within the loose window, with a raw          *)
(* similarity of at least the fuzzy threshold.                              *)
QualifiesForFuzzy(b, l) ==
    /\ l.type = b.type
    /\ SameBucket(b, l)
    /\ getDaysDiff(b.date, l.date) <= LooseWindow
    /\ RLeq(FuzzyThreshold, Similarity(b.description, l.description))

FuzzyLeftovers ==
    IF PassesOver >= 4
    THEN { p \in BankRecords \X LedgerRecords :
             /\ p[1].id \notin ClaimedByPass4("bank")
             /\ p[2].id \notin ClaimedByPass4("ledger")
             /\ QualifiesForFuzzy(p[1], p[2]) }
    ELSE {}

(* C27 as stated: a bank record with an unclaimed ledger candidate that     *)
(* qualifies is matched in pass 4, so once pass 4 has run no bank record    *)
(* and ledger record that passes 1 to 4 left unclaimed qualify.             *)
C27_QualifyingCandidateIsMatched ==
    FuzzyLeftovers = {}

(* C27, amended: pass 4 matches the bank record when the candidate of the   *)
(* greatest penalised score has a raw similarity of at least the threshold. *)
(* A bank record and a qualifying ledger record are both left by pass 4     *)
(* only when another ledger record of the polarity, bucket and loose window *)
(* has a raw similarity below the threshold and a penalised score not below *)
(* that of the qualifying one.                                              *)
C27_QualifyingCandidateLeftBehindNearerOne ==
    \A p \in FuzzyLeftovers :
        \E c \in LedgerRecords :
            /\ c.type = p[1].type
            /\ SameBucket(p[1], c)
            /\ getDaysDiff(p[1].date, c.date) <= LooseWindow
            /\ RLt(Similarity(p[1].description, c.description), FuzzyThreshold)
            /\ RLeq(PenalisedScore(p[1], p[2]), PenalisedScore(p[1], c))

(* An accuracy run has returned with the bank record unmatched, a ledger    *)
(* record of similarity 0.625 ten days away and one of similarity 0.5625    *)
(* four days away.                                                          *)
C27_QualifyingCandidateLeft ==
    /\ Done
    /\ mode = "accuracy"
    /\ Groups = <<>>
    /\ \E p \in FuzzyLeftovers :
         /\ Similarity(p[1].description, p[2].description) = R(5, 8)
         /\ getDaysDiff(p[1].date, p[2].date) = 10
         /\ \E c \in LedgerRecords :
              /\ Similarity(p[1].description, c.description) = R(9, 16)
              /\ getDaysDiff(p[1].date, c.date) = 4

MatchedCount(r) == r.stats.matchedBankCount + r.stats.matchedLedgerCount

(* Two calls on the same inputs have returned, one in each mode. *)
BothModesReturned == Done /\ previous # <<>> /\ previous[1].mode # mode

ResultOf(m) == IF mode = m THEN Returned ELSE previous[1].result

(* C28: on the same inputs the number of matched transactions              *)
(* (matchedBankCount + matchedLedgerCount) of accuracy mode is at least     *)
(* that of speed mode.                                                      *)
C28_AccuracyMatchesNoFewer ==
    BothModesReturned =>
        MatchedCount(ResultOf("accuracy")) >= MatchedCount(ResultOf("speed"))

(* On one bank record and two ledger records, one and three days after it,  *)
(* accuracy mode has matched nothing and speed mode has matched the bank    *)
(* record with the ledger record of the next day.                           *)
C28_SpeedMatchedMore ==
    /\ BothModesReturned
    /\ Len(bankTransactions) = 1
    /\ Len(ledgerTransactions) = 2
    /\ getDaysDiff(bankTransactions[1].date, ledgerTransactions[1].date) = 1
    /\ getDaysDiff(bankTransactions[1].date, ledgerTransactions[2].date) = 3
    /\ MatchedCount(ResultOf("accuracy")) = 0
    /\ MatchedCount(ResultOf("speed")) = 2
    /\ ResultOf("speed").matches[1].ledger = <<ledgerTransactions[1]>>

(* On other inputs accuracy mode has matched more than speed mode. *)
C28_AccuracyMatchedMore ==
    /\ BothModesReturned
    /\ MatchedCount(ResultOf("accuracy")) > MatchedCount(ResultOf("speed"))

(***************************************************************************)
(* The App component (src/App.tsx): handleFileUpload, the parse it          *)
(* schedules, and runReconciliation, whose awaited engine call runs as the  *)
(* engine's own steps, so that uploads and parses come between them.        *)
(***************************************************************************)
MaxUploads == 3

FileNames == { "jan.csv", "feb.csv", "empty.csv", "scan.pdf", "notes.txt" }

(* file.type === 'text/csv' || file.name.endsWith('.csv') *)
IsCsv(name) == name \in { "jan.csv", "feb.csv", "empty.csv" }

(* file.type === 'application/pdf' || file.name.endsWith('.pdf') *)
IsPdf(name) == name \in { "scan.pdf" }

(* process.env.API_KEY: the build has none, as apiKeyMissing provides for. *)
API_KEY == <<>>

(* What Papa.parse reads from a file after its header row: well-formed      *)
(* rows of a date, a description and a signed amount.                       *)
CsvRows(name) ==
    IF name = "jan.csv"
    THEN << [ date |-> <<2024, 3, 1>>, description |-> "Office Supply Co",
              amount |-> -100000 ] >>
    ELSE IF name = "feb.csv"
    THEN << [ date |-> <<2024, 3, 5>>, description |-> "Office Supplies Ltd",
              amount |-> -100000 ] >>
    ELSE <<>>

(* `${source}-${i}-${random}`: an id of its own for each record read. *)
RecordId(name, source) ==
    IF source = "bank"
    THEN (IF name = "jan.csv" THEN "b1" ELSE "b2")
    ELSE (IF name = "jan.csv" THEN "l1" ELSE "l2")

(* parseCSV: the promise is rejected for a file without data, and otherwise *)
(* resolved with one record for each row, the single Amount column giving   *)
(* the magnitude and, by its sign, the type.                                *)
parseCSV(name, source) ==
    LET rows == CsvRows(name)
    IN  IF rows = <<>>
        THEN [ ok |-> FALSE, message |-> "File is empty" ]
        ELSE [ ok |-> TRUE,
               transactions |->
                 [ i \in DOMAIN rows |->
                     Tx(RecordId(name, source), rows[i].date, rows[i].description,
                        IF rows[i].amount < 0 THEN -rows[i].amount ELSE rows[i].amount,
                        IF rows[i].amount < 0 THEN "debit" ELSE "credit", source) ] ]

(* What the try block throws before any await: <<message>>, or <<>>. *)
Thrown(name) ==
    IF IsCsv(name)
    THEN <<>>
    ELSE IF IsPdf(name)
    THEN <<"API Key required for PDF parsing">>
    ELSE <<"Unsupported file format.">>

ProcessingMode == "accuracy"

FileOf(side) == IF side = "bank" THEN bankFile ELSE ledgerFile

(* if (type === 'bank') setBankFile(file); else setLedgerFile(file); *)
SetFile(type, file) ==
    /\ bankFile' = IF type = "bank" THEN <<file>> ELSE bankFile
    /\ ledgerFile' = IF type = "bank" THEN ledgerFile ELSE <<file>>

(* bankFile?.parsedData is set *)
HasParsedData(f) == f # <<>> /\ "parsedData" \in DOMAIN f[1]

(* The File objects are numbered in the order of their selection. *)
Selections ==
    Max2(IF selected["bank"] = <<>> THEN 0 ELSE selected["bank"][1].selection,
         IF selected["ledger"] = <<>> THEN 0 ELSE selected["ledger"][1].selection)

engineVars ==
    << inputVars, callVars, sortedVars, pc, now, matches, matchedBankIds,
       matchedLedgerIds, progress, result >>

AppInit ==
    /\ bankTransactions = <<>>
    /\ ledgerTransactions = <<>>
    /\ similarity = <<>>
    /\ numericTokens = <<>>
    /\ mode = ProcessingMode
    /\ onProgress = FALSE
    /\ pc = "idle"
    /\ now = 0
    /\ sortedBank = <<>>
    /\ sortedLedger = <<>>
    /\ ledgerIndex = <<>>
    /\ bankIndex = <<>>
    /\ matches = <<>>
    /\ matchedBankIds = {}
    /\ matchedLedgerIds = {}
    /\ progress = <<>>
    /\ result = <<>>
    /\ previous = <<>>
    /\ calls = 0
    /\ AppMounted

(* handleFileUpload up to setTimeout; the file inputs are on the landing    *)
(* page, which is rendered while there is no result.                        *)
HandleFileUpload(type, name) ==
    /\ reconciliationResult = <<>>
    /\ Selections < MaxUploads
    /\ LET file == [ name |-> name, selection |-> Selections + 1 ]
           newFile == [ file |-> file, type |-> type, status |-> "parsing" ]
       IN  /\ reconciliationResult' = <<>>
           /\ SetFile(type, newFile)
           /\ selected' = [selected EXCEPT ![type] = <<file>>]
           /\ timers' = Append(timers, [ callback |-> "parse", newFile |-> newFile ])
    /\ UNCHANGED <<isProcessing, parsing, engineVars>>

(* The callback of setTimeout runs up to its await, or to the end of its    *)
(* catch block when it throws before.  The timers have the same delay, so   *)
(* that they run in the order in which they were set.                       *)
ParseTimer ==
    /\ timers # <<>>
    /\ Head(timers).callback = "parse"
    /\ LET newFile == Head(timers).newFile
           error == Thrown(newFile.file.name)
       IN  IF error = <<>>
           THEN /\ parsing' = parsing \cup { newFile }
                /\ UNCHANGED <<bankFile, ledgerFile>>
           ELSE /\ SetFile(newFile.type,
                           [ file |-> newFile.file, type |-> newFile.type,
                             status |-> "error", errorMessage |-> error[1] ])
                /\ UNCHANGED parsing
    /\ timers' = Tail(timers)
    /\ UNCHANGED <<reconciliationResult, isProcessing, selected, engineVars>>

(* The awaited parse is over: the callback goes on from its await, or      *)
(* with its catch block.                                                    *)
ParseDone(newFile) ==
    /\ newFile \in parsing
    /\ LET parsed == parseCSV(newFile.file.name, newFile.type)
       IN  SetFile(newFile.type,
                   IF parsed.ok
                   THEN [ file |-> newFile.file, type |-> newFile.type,
                          status |-> "ready", parsedData |-> parsed.transactions ]
                   ELSE [ file |-> newFile.file, type |-> newFile.type,
                          status |-> "error", errorMessage |-> parsed.message ])
    /\ parsing' = parsing \ { newFile }
    /\ UNCHANGED <<reconciliationResult, isProcessing, selected, timers, engineVars>>

(* runReconciliation up to its first await; the button is rendered on the   *)
(* landing page while isProcessing is false.  The function keeps the        *)
(* bankFile and ledgerFile of the render in which it was made.              *)
RunReconciliation ==
    /\ reconciliationResult = <<>>
    /\ ~isProcessing
    /\ HasParsedData(bankFile)
    /\ HasParsedData(ledgerFile)
    /\ pc = "idle"
    /\ isProcessing' = TRUE
    /\ timers' = Append(timers, [ callback |-> "run" ])
    /\ bankTransactions' = bankFile[1].parsedData
    /\ ledgerTransactions' = ledgerFile[1].parsedData
    /\ similarity' = SimilarityTable(bankFile[1].parsedData, ledgerFile[1].parsedData)
    /\ numericTokens' = TokenTable(bankFile[1].parsedData, ledgerFile[1].parsedData)
    /\ UNCHANGED <<bankFile, ledgerFile, reconciliationResult, selected, parsing,
                   callVars, sortedVars, pc, now, matches, matchedBankIds,
                   matchedLedgerIds, progress, result>>

(* The delay is over: reconcileTransactions is called. *)
RunCall ==
    /\ timers # <<>>
    /\ Head(timers).callback = "run"
    /\ Enter(ProcessingMode, TRUE)
    /\ timers' = Tail(timers)
    /\ UNCHANGED <<bankFile, ledgerFile, reconciliationResult, isProcessing, selected,
                   parsing>>

(* The call has returned: setReconciliationResult(results), and finally. *)
RunReturn ==
    /\ isProcessing
    /\ pc = "done"
    /\ reconciliationResult' = result
    /\ isProcessing' = FALSE
    /\ UNCHANGED <<bankFile, ledgerFile, selected, timers, parsing, engineVars>>

AppNext ==
    \/ \E type \in Sides, name \in FileNames : HandleFileUpload(type, name)
    \/ ParseTimer
    \/ \E newFile \in parsing : ParseDone(newFile)
    \/ RunReconciliation
    \/ RunCall
    \/ SortAndIndex
    \/ Pass1
    \/ Pass2
    \/ Pass3
    \/ Pass4
    \/ Pass5Split
    \/ Pass5MergeAndReturn
    \/ RunReturn

AppSpec == AppInit /\ [][AppNext]_vars

(***************************************************************************)
(* C29, C30: the App's file state and its reconciliation result.            *)
(***************************************************************************)
(* The records of one side that a result holds, matched or not. *)
RecordsIn(r, side) ==
    UNION { Range(r.matches[i][side]) : i \in DOMAIN r.matches }
    \cup Range(IF side = "bank" THEN r.unmatchedBank ELSE r.unmatchedLedger)

(* C29: whenever the App holds a reconciliation result, the result was      *)
(* computed from the parsed data that bankFile and ledgerFile hold now:     *)
(* both sides have parsed data and the result's records of each side,       *)
(* matched and unmatched, are exactly that side's parsed data.              *)
C29_ResultOfHeldFiles ==
    reconciliationResult # <<>> =>
        \A side \in Sides :
            /\ HasParsedData(FileOf(side))
            /\ RecordsIn(reconciliationResult[1], side) = Range(FileOf(side)[1].parsedData)

(* A file was selected for the bank side while runReconciliation awaited    *)
(* the engine, its parse is over, and the dashboard shows the result of     *)
(* the file before against the parsed data of the new one.                  *)
C29_ResultOfReplacedFile ==
    /\ reconciliationResult # <<>>
    /\ HasParsedData(bankFile)
    /\ HasParsedData(ledgerFile)
    /\ bankFile[1].file = selected["bank"][1]
    /\ bankFile[1].parsedData # bankTransactions
    /\ RecordsIn(reconciliationResult[1], "bank") = Range(bankTransactions)

(* A parse of a file of this side has been scheduled and is not over. *)
ParsePending(side) ==
    \/ \E i \in DOMAIN timers :
          timers[i].callback = "parse" /\ timers[i].newFile.type = side
    \/ \E newFile \in parsing : newFile.type = side

(* What the parse of a file leaves in the state of its side. *)
ParseOutcome(file, side) ==
    LET parsed == parseCSV(file.name, side)
    IN  IF Thrown(file.name) # <<>>
        THEN [ file |-> file, type |-> side, status |-> "error",
               errorMessage |-> Thrown(file.name)[1] ]
        ELSE IF parsed.ok
        THEN [ file |-> file, type |-> side, status |-> "ready",
               parsedData |-> parsed.transactions ]
        ELSE [ file |-> file, type |-> side, status |-> "error",
               errorMessage |-> parsed.message ]

(* C30: once the parses of the files selected for a side are over, in      *)
(* whatever order they finished, the file state of the side holds the file  *)
(* selected last for it, with that file's parsed data or its error.         *)
C30_LastSelectionHeld ==
    \A side \in Sides :
        (selected[side] # <<>> /\ ~ParsePending(side)) =>
            FileOf(side)[1] = ParseOutcome(selected[side][1], side)

(* Two files were selected for the bank side, both parses are over, and     *)
(* the bank file state holds the parsed data of the first.                  *)
C30_EarlierFileHeld ==
    /\ selected["bank"] # <<>>
    /\ ~ParsePending("bank")
    /\ bankFile[1].file.selection < selected["bank"][1].selection
    /\ bankFile[1].status = "ready"
====
